---------------------------- MODULE Spec2Model ----------------------------
(***************************************************************************)
(* A model of the optimizer (pkg/pdfcpu/optimize.go) and of the writer     *)
(* (pkg/pdfcpu/write.go) of pdfcpu.                                        *)
(*                                                                         *)
(* Spec      : OptimizeXRefTable applied to a parsed document, then        *)
(*             applied a second time to the same context.                  *)
(* SpecRuns  : OptimizeXRefTable applied to a document, then applied to a  *)
(*             fresh context holding the same document.                    *)
(* SpecWrite : WritePDFFile applied to a context the optimizer has         *)
(*             returned.                                                   *)
(*                                                                         *)
(* A Go map is iterated in an order the runtime picks: every loop over a   *)
(* Dict or over a map of the optimizer is modelled by a nondeterministic   *)
(* choice among the keys not yet visited.                                  *)
(***************************************************************************)
EXTENDS Integers, Sequences, FiniteSets, TLC

(***************************************************************************)
(* The documents.  An object number maps to a kind, a font name, a body    *)
(* (everything of the object that is not modelled separately), and the set *)
(* of object numbers its values refer to by indirect reference.            *)
(* Font names are kept as the list of their segments between "+" signs:    *)
(* "ABCDEF+Helvetica" is <<"ABCDEF", "Helvetica">>.                         *)
(***************************************************************************)
ObjNr ==
  [ PagesRoot |-> 2, Page1 |-> 3, Page2 |-> 4, FontA |-> 10, FontC |-> 12,
    FontB |-> 15, DescA |-> 20, DescB |-> 21, FontFile |-> 22, Form1 |-> 30,
    FormFont |-> 31, Image1 |-> 40, Image2 |-> 41, CorruptObj |-> 97,
    NoTypeObj |-> 98, Direct |-> 0 ]

PagesRoot == ObjNr.PagesRoot
Page1 == ObjNr.Page1
Page2 == ObjNr.Page2
FontA == ObjNr.FontA
FontB == ObjNr.FontB
FontC == ObjNr.FontC
FormFont == ObjNr.FormFont
Form1 == ObjNr.Form1
DescA == ObjNr.DescA
DescB == ObjNr.DescB
FontFile == ObjNr.FontFile
Image1 == ObjNr.Image1
Image2 == ObjNr.Image2
NoTypeObj == ObjNr.NoTypeObj
CorruptObj == ObjNr.CorruptObj

\* A value of a resource dict that is no indirect reference (object 0 is the
\* head of the free list and is never referred to).
Direct == ObjNr.Direct

Objs == {PagesRoot, Page1, Page2, FontA, FontB, FontC, FormFont, Form1, DescA,
         DescB, FontFile, Image1, Image2, NoTypeObj, CorruptObj}

Helv == <<"Helvetica">>
SubHelv == <<"ABCDEF", "Helvetica">>

NoDict == <<>>

\* The number of different bodies a font or an image of a document may have.
MaxBody == 2

Kind0 ==
  [n \in Objs |->
     CASE n = PagesRoot -> "Pages"
       [] n \in {Page1, Page2} -> "Page"
       [] n \in {FontA, FontB, FontC, FormFont} -> "Font"
       [] n = Form1 -> "Form"
       [] n \in {DescA, DescB} -> "FontDescriptor"
       [] n = FontFile -> "Stream"
       [] n \in {Image1, Image2} -> "Image"
       [] n = NoTypeObj -> "NoType"
       [] OTHER -> "Corrupt"]

\* FontA and the font of the form share the descriptor DescA; FontB and FontC
\* share descB; file is what the descriptors refer to.
Refs0(descB, file) ==
  [n \in Objs |->
     CASE n = PagesRoot -> {Page1, Page2}
       [] n \in {FontA, FormFont} -> {DescA}
       [] n \in {FontB, FontC} -> {descB}
       [] n \in {DescA, DescB} -> {file}
       [] OTHER -> {}]

FontDicts1 ==
  { (("F1" :> FontA) @@ ("F2" :> FontB)),
    ("F1" :> FontB),
    (("F1" :> FontA) @@ ("F2" :> FontC)) }

FontDicts2 ==
  { ("F1" :> FontA),
    (("F1" :> FontB) @@ ("F2" :> FontC)),
    (("F1" :> FontB) @@ ("F2" :> Direct)) }

FormFontDicts ==
  { ("F1" :> FormFont),
    (("F1" :> FormFont) @@ ("F2" :> NoTypeObj)) }

XObjDicts1 ==
  { NoDict,
    ("X1" :> Form1),
    (("X1" :> Image1) @@ ("X2" :> Image2)) }

XObjDicts2 ==
  { NoDict,
    (("X1" :> Image2) @@ ("X2" :> Form1)) }

Doc(fd1, fd2, fdf, xd1, xd2, nameB, bodyB, bodyI, descB, file) ==
  [ root  |-> PagesRoot,
    kind  |-> Kind0,
    name  |-> [n \in Objs |->
                 CASE n \in {FontA, FormFont} -> Helv
                   [] n = FontB -> nameB
                   [] n = FontC -> SubHelv
                   [] OTHER -> <<>>],
    body  |-> [n \in Objs |->
                 CASE n = FontB -> bodyB
                   [] n = Image2 -> bodyI
                   [] OTHER -> 1],
    refs  |-> Refs0(descB, file),
    kids  |-> [n \in Objs |-> IF n = PagesRoot THEN <<Page1, Page2>> ELSE <<>>],
    count |-> [n \in Objs |-> IF n = PagesRoot THEN 2 ELSE -1],
    font  |-> [n \in Objs |->
                 CASE n = Page1 -> fd1
                   [] n = Page2 -> fd2
                   [] n = Form1 -> fdf
                   [] OTHER -> NoDict],
    xobj  |-> [n \in Objs |->
                 CASE n = Page1 -> xd1
                   [] n = Page2 -> xd2
                   [] OTHER -> NoDict] ]

Docs ==
  { Doc(fd1, fd2, fdf, xd1, xd2, nameB, bodyB, bodyI, descB, file) :
      fd1 \in FontDicts1, fd2 \in FontDicts2, fdf \in FormFontDicts,
      xd1 \in XObjDicts1, xd2 \in XObjDicts2,
      nameB \in {Helv, SubHelv}, bodyB \in 1..MaxBody, bodyI \in 1..MaxBody,
      descB \in {DescB, CorruptObj}, file \in {FontFile, CorruptObj} } \
  { d \in { Doc(fd1, fd2, fdf, xd1, xd2, Helv, 1, 1, CorruptObj, CorruptObj) :
              fd1 \in FontDicts1, fd2 \in FontDicts2, fdf \in FormFontDicts,
              xd1 \in XObjDicts1, xd2 \in XObjDicts2 } : TRUE }


(***************************************************************************)
(* The state.                                                              *)
(*   input     the document as parsed (never changed)                      *)
(*   fontRes   the Font resource dict of every page and form, as the       *)
(*             table holds it now                                          *)
(*   xobjRes   the XObject resource dict of every page and form            *)
(*   Optimize  ctx.Optimize                                                *)
(*   PageCount ctx.PageCount, Optimized ctx.Optimized                      *)
(*   pc        where OptimizeXRefTable is                                  *)
(*   pstack    the calls of parsePagesDict: node and index of the next kid *)
(*   rstack    the calls of parseResourcesDict: owner, the dict being      *)
(*             iterated and its keys not yet visited                       *)
(*   pageNumber the page counter of parsePagesDict                         *)
(*   calc      calcRedundantObjects: the duplicates not yet traversed      *)
(*   tstack    the calls of traverseObjectGraphAndMarkDuplicates           *)
(*   err       whether OptimizeXRefTable returned an error                 *)
(*   raised    whether an error was raised in this call                    *)
(*   visited   the font resource entries visited: owner, key, the object   *)
(*             number held when first visited                              *)
(*   seen      the font objects in the order they were first dereferenced  *)
(*   pass      the number of the call of OptimizeXRefTable                 *)
(*   snap      ctx.Optimize and the resource dicts after the first call    *)
(*                                                                         *)
(*   XRefTable ctx.XRefTable: Table, Size, Root, Info, Encrypt, EncKey, ID *)
(*             (the length of the array, 0 for nil), AdditionalStreams,    *)
(*             LinearizationObjs and the offsets of the hint tables        *)
(*   Write     ctx.Write: Table (the write offsets), Offset, ExtractPageNr,*)
(*             ExtractPages (the numbers of the pages to keep),            *)
(*             WriteToObjectStream, CurrentObjStream, the ObjCount of the  *)
(*             current object stream, Eol, and Out, the objects written    *)
(*             inline in the order of their `N G obj` markers, each with   *)
(*             the position of the marker                                  *)
(*   Read      ctx.Read: Linearized, UsingXRefStreams, ObjectStreams,      *)
(*             XRefStreams                                                 *)
(*   conf      ctx.Configuration: Mode, WriteXRefStream, WriteObjectStream *)
(*   wpc       where WritePDFFile is                                       *)
(*   steps     the steps of WritePDFFile that were started, in order       *)
(*   failed    the step that returned an error, "" when none did           *)
(*   file      the output file: created, closes (the number of calls of    *)
(*             Close), closeFails (whether Close returns an error)         *)
(*   ret       what WritePDFFile returned: "" before it returns, "nil",    *)
(*             the name of the step whose error it returned, or "close"    *)
(*   xref      the cross reference section as written                      *)
(*                                                                         *)
(*   ostm      an ObjectStreamDict: Prolog, Content, ObjCount,             *)
(*             FirstObjOffset, and what was done with it: calls (the calls *)
(*             of AddObject in order, each with its object number, its     *)
(*             object and whether it returned nil) and final (whether      *)
(*             Finalize was called)                                        *)
(***************************************************************************)
VARIABLES input, fontRes, xobjRes, Optimize, PageCount, Optimized,
          pc, pstack, rstack, pageNumber, calc, tstack,
          err, raised, visited, seen, pass, snap,
          XRefTable, Write, Read, conf, wpc, steps, failed, file, ret, xref,
          ostm

\* The variables of the optimizer but ctx.Optimize, and those of the writer.
ovars == <<input, fontRes, xobjRes, PageCount, Optimized,
           pc, pstack, rstack, pageNumber, calc, tstack,
           err, raised, visited, seen, pass, snap>>

wvars == <<XRefTable, Write, Read, conf, wpc, steps, failed, file, ret, xref>>

vars == <<ovars, Optimize, wvars, ostm>>

Has(f, k) == k \in DOMAIN f

Put(f, k, v) == (k :> v) @@ f

Last(q) == q[Len(q)]

Front(q) == SubSeq(q, 1, Len(q) - 1)

NewOptimize ==
  [ Fonts |-> <<>>, FontObjects |-> <<>>, PageFonts |-> <<>>,
    DuplicateFonts |-> {}, DuplicateFontObjs |-> {},
    ImageObjects |-> <<>>, PageImages |-> <<>>,
    DuplicateImages |-> {}, DuplicateImageObjs |-> {},
    DuplicateInfoObjects |-> {} ]

(***************************************************************************)
(* Collaborators that are not part of the optimizer.                       *)
(***************************************************************************)
\* Dereference returns an error for an object that cannot be resolved.
DerefFails(n) == input.kind[n] = "Corrupt"

IsDict(n) == input.kind[n] \in {"Pages", "Page", "Font", "FontDescriptor", "NoType"}

IsStreamDict(n) == input.kind[n] \in {"Form", "Image", "Stream"}

\* Structural equality of two objects: "eq", "ne", or "err" when a value
\* that has to be dereferenced cannot be.  Equal indirect refs are equal
\* without being dereferenced.
RECURSIVE equalObjects(_, _)
equalObjects(a, b) ==
  IF a = b THEN "eq"
  ELSE IF DerefFails(a) \/ DerefFails(b) THEN "err"
  ELSE IF \/ input.kind[a] # input.kind[b]
          \/ input.name[a] # input.name[b]
          \/ input.body[a] # input.body[b] THEN "ne"
  ELSE LET ra == input.refs[a] \ input.refs[b]
           rb == input.refs[b] \ input.refs[a]
       IN IF Cardinality(ra) # Cardinality(rb) THEN "ne"
          ELSE IF \E x \in ra, y \in rb : equalObjects(x, y) = "err" THEN "err"
          ELSE IF /\ \A x \in ra : \E y \in rb : equalObjects(x, y) = "eq"
                  /\ \A y \in rb : \E x \in ra : equalObjects(x, y) = "eq"
               THEN "eq" ELSE "ne"

equalFontDicts(a, b) == equalObjects(a, b)

equalStreamDicts(a, b) == equalObjects(a, b)

(***************************************************************************)
(* optimizeFontResourcesDict                                               *)
(***************************************************************************)
\* fontName, for a font that is not of subtype Type3: BaseFont, else Name.
fontName(n) ==
  [ ok |-> input.name[n] # <<>>, fn |-> input.name[n] ]

\* strings.Index(fn, "+"): the length of the first segment when there is a
\* second one, -1 when there is none.
IndexOfPlus(fn) == IF Len(fn) > 1 THEN (IF fn[1] = "" THEN 0 ELSE 1) ELSE -1

\* The prefix and the bare name: split at the first "+" when it is not the
\* first character.
Prefix(fn) == IF IndexOfPlus(fn) > 0 THEN fn[1] ELSE ""

\* A variant that keeps the prefix in the name.
BareNameUnsplit(fn) == fn

BareName(fn) == IF IndexOfPlus(fn) > 0 THEN Tail(fn) ELSE fn

AddPage(pf, page, nr) == [pf EXCEPT ![page] = @ \cup {nr}]

AddResourceName(fo, nr, r) ==
  [fo EXCEPT ![nr].ResourceNames = Append(@, r)]

\* A variant of the loop that looks at the first font of the list only.
probeFontsFirstOnly(list, i, objNr) ==
  LET e == equalFontDicts(Optimize.FontObjects[list[1]].FontDict, objNr)
  IN IF e = "err" THEN [res |-> "err", nr |-> 0]
     ELSE IF e = "eq" THEN [res |-> "dup", nr |-> list[1]]
     ELSE [res |-> "none", nr |-> 0]

\* The loop of handleDuplicateFontObject over ctx.Optimize.Fonts[fontName],
\* from index i on.
RECURSIVE probeFonts(_, _, _)
probeFonts(list, i, objNr) ==
  IF i > Len(list) THEN [res |-> "none", nr |-> 0]
  ELSE LET e == equalFontDicts(Optimize.FontObjects[list[i]].FontDict, objNr)
       IN IF e = "err" THEN [res |-> "err", nr |-> 0]
          ELSE IF e = "eq" THEN [res |-> "dup", nr |-> list[i]]
          ELSE probeFonts(list, i + 1, objNr)

\* A variant of handleDuplicateFontObject that takes the first font
\* registered under the name for equal without comparing.
handleDuplicateByName(fn, r, objNr, page) ==
  IF ~Has(Optimize.Fonts, fn) THEN [res |-> "none", nr |-> 0, O |-> Optimize]
  ELSE LET c == Optimize.Fonts[fn][1]
       IN [ res |-> "dup", nr |-> c,
            O |-> [Optimize EXCEPT
                     !.PageFonts = AddPage(@, page, c),
                     !.FontObjects = AddResourceName(@, c, r),
                     !.DuplicateFonts = @ \cup {objNr}] ]

\* A variant of handleDuplicateFontObject that marks the duplicate, not the
\* registered font, as a font of the page.
handleDuplicateMarksDuplicate(fn, r, objNr, page) ==
  IF ~Has(Optimize.Fonts, fn) THEN [res |-> "none", nr |-> 0, O |-> Optimize]
  ELSE LET p == probeFonts(Optimize.Fonts[fn], 1, objNr)
       IN IF p.res = "dup"
          THEN [ res |-> "dup", nr |-> p.nr,
                 O |-> [Optimize EXCEPT
                          !.PageFonts = AddPage(@, page, objNr),
                          !.FontObjects = AddResourceName(@, p.nr, r),
                          !.DuplicateFonts = @ \cup {objNr}] ]
          ELSE [res |-> p.res, nr |-> 0, O |-> Optimize]

\* res: "none" (no registered font is equal), "dup" (nr is), "err"; O is
\* ctx.Optimize afterwards.
handleDuplicateFontObject(fn, r, objNr, page) ==
  IF ~Has(Optimize.Fonts, fn) THEN [res |-> "none", nr |-> 0, O |-> Optimize]
  ELSE LET p == probeFonts(Optimize.Fonts[fn], 1, objNr)
       IN IF p.res = "dup"
          THEN [ res |-> "dup", nr |-> p.nr,
                 O |-> [Optimize EXCEPT
                          !.PageFonts = AddPage(@, page, p.nr),
                          !.FontObjects = AddResourceName(@, p.nr, r),
                          !.DuplicateFonts = @ \cup {objNr}] ]
          ELSE [res |-> p.res, nr |-> 0, O |-> Optimize]

\* One turn of the loop of optimizeFontResourcesDict, for key r of the Font
\* resource dict of owner.  res: "ok", "err" or "panic"; O and F are
\* ctx.Optimize and the resource dicts afterwards.
fontEntry(owner, r, page) ==
  LET v == fontRes[owner][r]
      out(res) == [res |-> res, O |-> Optimize, F |-> fontRes]
  IN IF v = Direct THEN out("err")
     ELSE IF Has(Optimize.FontObjects, v)
          THEN [ res |-> "ok", F |-> fontRes,
                 O |-> [Optimize EXCEPT !.PageFonts = AddPage(@, page, v)] ]
     ELSE IF DerefFails(v) THEN out("err")
     ELSE IF ~IsDict(v) THEN out("panic")
     ELSE IF input.kind[v] = "NoType" THEN out("err")
     ELSE IF input.kind[v] # "Font" THEN out("err")
     ELSE IF ~fontName(v).ok THEN out("err")
     ELSE LET fn == BareName(fontName(v).fn)
              h == handleDuplicateFontObject(fn, r, v, page)
          IN IF h.res = "err" THEN out("err")
             ELSE IF h.res = "none"
             THEN [ res |-> "ok", F |-> fontRes,
                    O |-> [Optimize EXCEPT
                             !.Fonts = IF Has(@, fn) THEN Put(@, fn, Append(@[fn], v))
                                       ELSE Put(@, fn, <<v>>),
                             !.FontObjects =
                                Put(@, v, [ ResourceNames |-> <<r>>,
                                            Prefix |-> Prefix(fontName(v).fn),
                                            FontName |-> fn,
                                            FontDict |-> v ]),
                             !.PageFonts = AddPage(@, page, v)] ]
             ELSE [ res |-> "ok", O |-> h.O,
                    F |-> [fontRes EXCEPT ![owner] = Put(@, r, h.nr)] ]

(***************************************************************************)
(* optimizeXObjectResourcesDict                                            *)
(***************************************************************************)
\* handleDuplicateImageObject ranges over the map ctx.Optimize.ImageObjects:
\* the set of the results it can return, one for every order of the map.
handleDuplicateImageObject(r, objNr, page) ==
  LET io == Optimize.ImageObjects
      eq == {c \in DOMAIN io : equalStreamDicts(io[c].ImageDict, objNr) = "eq"}
      er == {c \in DOMAIN io : equalStreamDicts(io[c].ImageDict, objNr) = "err"}
  IN { [ res |-> "dup", nr |-> c,
         O |-> [Optimize EXCEPT
                  !.PageImages = AddPage(@, page, c),
                  !.ImageObjects = AddResourceName(@, c, r),
                  !.DuplicateImages = @ \cup {objNr}] ] : c \in eq }
     \cup (IF er # {} THEN {[res |-> "err", nr |-> 0, O |-> Optimize]} ELSE {})
     \cup (IF eq = {} /\ er = {}
           THEN {[res |-> "none", nr |-> 0, O |-> Optimize]} ELSE {})

\* One turn of the loop of optimizeXObjectResourcesDict up to the recursion
\* into a form, with h the result of handleDuplicateImageObject.
\* res: "ok", "form", "err".
xobjEntry(owner, r, page, h) ==
  LET v == xobjRes[owner][r]
      out(res) == [res |-> res, O |-> Optimize, X |-> xobjRes]
  IN IF v = Direct THEN out("err")
     ELSE IF DerefFails(v) THEN out("err")
     ELSE IF ~IsStreamDict(v) THEN out("err")
     ELSE IF input.kind[v] = "Image"
     THEN IF Has(Optimize.ImageObjects, v)
          THEN [ res |-> "ok", X |-> xobjRes,
                 O |-> [Optimize EXCEPT !.PageImages = AddPage(@, page, v)] ]
          ELSE IF h.res = "err" THEN out("err")
          ELSE IF h.res = "none"
          THEN [ res |-> "ok", X |-> xobjRes,
                 O |-> [Optimize EXCEPT
                          !.ImageObjects =
                             Put(@, v, [ResourceNames |-> <<r>>, ImageDict |-> v]),
                          !.PageImages = AddPage(@, page, v)] ]
          ELSE [ res |-> "ok", O |-> h.O,
                 X |-> [xobjRes EXCEPT ![owner] = Put(@, r, h.nr)] ]
     ELSE IF input.kind[v] # "Form" THEN out("ok")
     ELSE out("form")

(***************************************************************************)
(* OptimizeXRefTable, step by step.                                        *)
(***************************************************************************)
Init ==
  /\ input \in Docs
  /\ fontRes = input.font
  /\ xobjRes = input.xobj
  /\ Optimize = NewOptimize
  /\ PageCount = 0
  /\ Optimized = FALSE
  /\ pc = "start"
  /\ pstack = <<>>
  /\ rstack = <<>>
  /\ pageNumber = 0
  /\ calc = [fonts |-> {}, images |-> {}]
  /\ tstack = <<>>
  /\ err = FALSE
  /\ raised = FALSE
  /\ visited = {}
  /\ seen = <<>>
  /\ pass = 1
  /\ snap = [O |-> NewOptimize, F |-> input.font, X |-> input.xobj]
  /\ XRefTable = <<>>
  /\ Write = <<>>
  /\ Read = <<>>
  /\ conf = <<>>
  /\ wpc = "idle"
  /\ steps = <<>>
  /\ failed = ""
  /\ file = <<>>
  /\ ret = ""
  /\ xref = <<>>
  /\ ostm = <<>>

\* An error reaches OptimizeXRefTable, which returns it.
Fail ==
  /\ pc' = "failed"
  /\ err' = TRUE
  /\ raised' = TRUE
  /\ pstack' = <<>>
  /\ rstack' = <<>>
  /\ tstack' = <<>>

\* A failed type assertion or an index out of range.
Panic ==
  /\ pc' = "panic"
  /\ pstack' = <<>>
  /\ rstack' = <<>>
  /\ tstack' = <<>>
  /\ UNCHANGED <<err, raised>>

\* The calls a walk may nest before the stack of the goroutine exceeds its
\* limit.
MaxDepth == 6

\* The runtime ends the program with a fatal error when the stack exceeds
\* its limit.
StackOverflow ==
  /\ pc' = "overflow"
  /\ pstack' = <<>>
  /\ rstack' = <<>>
  /\ tstack' = <<>>
  /\ UNCHANGED <<err, raised>>

\* optimizeFontAndImages up to the call of parsePagesDict.
BeginOptimize ==
  /\ pc = "start"
  /\ LET count == input.count[input.root]
     IN IF count < 0 \/ (PageCount > 0 /\ PageCount # count)
        THEN Fail /\ UNCHANGED <<Optimize, PageCount, pageNumber>>
        ELSE /\ PageCount' = count
             /\ Optimize' = [Optimize EXCEPT
                               !.PageFonts = [p \in 0..(count - 1) |-> {}],
                               !.PageImages = [p \in 0..(count - 1) |-> {}]]
             /\ pstack' = <<[node |-> input.root, idx |-> 1]>>
             /\ pageNumber' = 0
             /\ pc' = "walk"
             /\ UNCHANGED <<rstack, tstack, err, raised>>
  /\ UNCHANGED <<wvars, ostm, input, fontRes, xobjRes, Optimized, calc, visited, seen, pass, snap>>

\* One turn of the loop of parsePagesDict over Kids.
ParsePagesKid ==
  /\ pc = "walk"
  /\ rstack = <<>>
  /\ pstack # <<>>
  /\ LET top == Last(pstack)
         kids == input.kids[top.node]
     IN /\ top.idx <= Len(kids)
        /\ LET kid == kids[top.idx]
               next == [top EXCEPT !.idx = @ + 1]
           IN IF kid = Direct \/ ~IsDict(kid)
              THEN IF kid # Direct /\ DerefFails(kid)
                   THEN Fail /\ UNCHANGED pageNumber
                   ELSE Panic /\ UNCHANGED pageNumber
              ELSE IF input.kind[kid] = "Pages"
              THEN IF input.count[kid] < 0
                   THEN Fail /\ UNCHANGED pageNumber
                   ELSE IF Len(pstack) >= MaxDepth
                   THEN StackOverflow /\ UNCHANGED pageNumber
                   ELSE /\ pstack' = Append(Append(Front(pstack), next),
                                            [node |-> kid, idx |-> 1])
                        /\ UNCHANGED <<pc, rstack, tstack, err, raised, pageNumber>>
              ELSE IF input.kind[kid] # "Page"
              THEN Fail /\ UNCHANGED pageNumber
              ELSE IF fontRes[kid] = NoDict /\ xobjRes[kid] = NoDict
              THEN /\ pstack' = Append(Front(pstack), next)
                   /\ pageNumber' = pageNumber + 1
                   /\ UNCHANGED <<pc, rstack, tstack, err, raised>>
              ELSE IF pageNumber \notin DOMAIN Optimize.PageFonts
              THEN Panic /\ UNCHANGED pageNumber
              ELSE /\ rstack' = <<[ owner |-> kid, phase |-> "font",
                                    todo |-> DOMAIN fontRes[kid] ]>>
                   /\ UNCHANGED <<pc, pstack, tstack, err, raised, pageNumber>>
  /\ UNCHANGED <<wvars, ostm, input, fontRes, xobjRes, Optimize, PageCount, Optimized, calc,
                 visited, seen, pass, snap>>

\* parsePagesDict returns; the outermost call is followed by
\* calcRedundantObjects.
ParsePagesReturn ==
  /\ pc = "walk"
  /\ rstack = <<>>
  /\ pstack # <<>>
  /\ Last(pstack).idx > Len(input.kids[Last(pstack).node])
  /\ pstack' = Front(pstack)
  /\ IF Len(pstack) = 1
     THEN /\ pc' = "calc"
          /\ calc' = [ fonts |-> Optimize.DuplicateFonts,
                       images |-> Optimize.DuplicateImages ]
     ELSE UNCHANGED <<pc, calc>>
  /\ UNCHANGED <<wvars, ostm, input, fontRes, xobjRes, Optimize, PageCount, Optimized,
                 rstack, pageNumber, tstack, err, raised, visited, seen, pass, snap>>

\* An error raised by the call of parseResourcesDict on top of rstack: the
\* call for a page returns it to parsePagesDict, the call for a form returns
\* it to optimizeXObjectResourcesDict, which goes on with its loop.
RaiseInResources ==
  IF Len(rstack) > 1
  THEN /\ rstack' = Front(rstack)
       /\ raised' = TRUE
       /\ UNCHANGED <<pc, pstack, tstack, err>>
  ELSE Fail

Step(frame, r) == [frame EXCEPT !.todo = @ \ {r}]

\* One turn of the loop of optimizeFontResourcesDict.
FontEntry ==
  /\ pc = "walk"
  /\ rstack # <<>>
  /\ Last(rstack).phase = "font"
  /\ \E r \in Last(rstack).todo :
       LET top == Last(rstack)
           v == fontRes[top.owner][r]
           e == fontEntry(top.owner, r, pageNumber)
       IN CASE e.res = "ok" ->
                 /\ Optimize' = e.O
                 /\ fontRes' = e.F
                 /\ rstack' = Append(Front(rstack), Step(top, r))
                 /\ visited' = visited \cup {[owner |-> top.owner, key |-> r, orig |-> v]}
                 /\ seen' = IF \E i \in 1..Len(seen) : seen[i] = v
                            THEN seen ELSE Append(seen, v)
                 /\ UNCHANGED <<pc, pstack, tstack, err, raised>>
            [] e.res = "err" ->
                 /\ RaiseInResources
                 /\ UNCHANGED <<Optimize, fontRes, visited, seen>>
            [] OTHER ->
                 /\ Panic
                 /\ UNCHANGED <<Optimize, fontRes, visited, seen>>
  /\ UNCHANGED <<wvars, ostm, input, xobjRes, PageCount, Optimized, pageNumber, calc, pass, snap>>

\* optimizeResources goes from the Font dict to the XObject dict.
FontDictDone ==
  /\ pc = "walk"
  /\ rstack # <<>>
  /\ Last(rstack).phase = "font"
  /\ Last(rstack).todo = {}
  /\ rstack' = Append(Front(rstack),
                      [ owner |-> Last(rstack).owner, phase |-> "xobj",
                        todo |-> DOMAIN xobjRes[Last(rstack).owner] ])
  /\ UNCHANGED <<wvars, ostm, input, fontRes, xobjRes, Optimize, PageCount, Optimized, pc,
                 pstack, pageNumber, calc, tstack, err, raised, visited, seen,
                 pass, snap>>

\* One turn of the loop of optimizeXObjectResourcesDict.
XObjEntry ==
  /\ pc = "walk"
  /\ rstack # <<>>
  /\ Last(rstack).phase = "xobj"
  /\ \E r \in Last(rstack).todo :
       LET top == Last(rstack)
           v == xobjRes[top.owner][r]
           hs == IF v # Direct /\ input.kind[v] = "Image"
                    /\ ~Has(Optimize.ImageObjects, v)
                 THEN handleDuplicateImageObject(r, v, pageNumber)
                 ELSE {[res |-> "none", nr |-> 0, O |-> Optimize]}
       IN \E h \in hs :
            LET e == xobjEntry(top.owner, r, pageNumber, h)
            IN CASE e.res = "ok" ->
                      /\ Optimize' = e.O
                      /\ xobjRes' = e.X
                      /\ rstack' = Append(Front(rstack), Step(top, r))
                      /\ UNCHANGED <<pc, pstack, tstack, err, raised>>
                 [] e.res = "form" /\ Len(rstack) >= MaxDepth ->
                      /\ StackOverflow
                      /\ UNCHANGED <<Optimize, xobjRes>>
                 [] e.res = "form" /\ Len(rstack) < MaxDepth ->
                      /\ rstack' = Append(Append(Front(rstack), Step(top, r)),
                                          [ owner |-> v, phase |-> "font",
                                            todo |-> DOMAIN fontRes[v] ])
                      /\ UNCHANGED <<Optimize, xobjRes, pc, pstack, tstack, err, raised>>
                 [] OTHER ->
                      /\ RaiseInResources
                      /\ UNCHANGED <<Optimize, xobjRes>>
  /\ UNCHANGED <<wvars, ostm, input, fontRes, PageCount, Optimized, pageNumber, calc,
                 visited, seen, pass, snap>>

\* parseResourcesDict returns without an error: to the loop of
\* optimizeXObjectResourcesDict for a form, to parsePagesDict for a page,
\* which counts the page.
ResourcesDone ==
  /\ pc = "walk"
  /\ rstack # <<>>
  /\ Last(rstack).phase = "xobj"
  /\ Last(rstack).todo = {}
  /\ rstack' = Front(rstack)
  /\ IF Len(rstack) = 1
     THEN /\ pageNumber' = pageNumber + 1
          /\ pstack' = Append(Front(pstack), [Last(pstack) EXCEPT !.idx = @ + 1])
     ELSE UNCHANGED <<pageNumber, pstack>>
  /\ UNCHANGED <<wvars, ostm, input, fontRes, xobjRes, Optimize, PageCount, Optimized, pc,
                 calc, tstack, err, raised, visited, seen, pass, snap>>

(***************************************************************************)
(* calcRedundantObjects                                                    *)
(***************************************************************************)
Mark(O, kind, n) ==
  IF kind = "font" THEN [O EXCEPT !.DuplicateFontObjs = @ \cup {n}]
  ELSE [O EXCEPT !.DuplicateImageObjs = @ \cup {n}]

\* One turn of one of the two loops of calcRedundantObjects: the duplicate
\* is marked and traverseObjectGraphAndMarkDuplicates is called on it.
CalcPick ==
  /\ pc = "calc"
  /\ tstack = <<>>
  /\ IF calc.fonts # {}
     THEN \E i \in calc.fonts :
            /\ Optimize' = Mark(Optimize, "font", i)
            /\ calc' = [calc EXCEPT !.fonts = @ \ {i}]
            /\ tstack' = <<[kind |-> "font", todo |-> input.refs[i]]>>
     ELSE \E i \in calc.images :
            /\ Optimize' = Mark(Optimize, "image", i)
            /\ calc' = [calc EXCEPT !.images = @ \ {i}]
            /\ tstack' = <<[kind |-> "image", todo |-> input.refs[i]]>>
  /\ UNCHANGED <<wvars, ostm, input, fontRes, xobjRes, PageCount, Optimized, pc, pstack,
                 rstack, pageNumber, err, raised, visited, seen, pass, snap>>

\* traverse, called for an indirect ref n by the loop of the call of
\* traverseObjectGraphAndMarkDuplicates on top of tstack.  An error of
\* Dereference ends that call; its caller is calcRedundantObjects, which
\* returns the error, or traverse, which does not look at it.
TraverseStep ==
  /\ pc = "calc"
  /\ tstack # <<>>
  /\ \E n \in Last(tstack).todo :
       LET top == Last(tstack)
       IN /\ Optimize' = Mark(Optimize, top.kind, n)
          /\ IF DerefFails(n)
             THEN IF Len(tstack) = 1
                  THEN Fail
                  ELSE /\ tstack' = Front(tstack)
                       /\ raised' = TRUE
                       /\ UNCHANGED <<pc, pstack, rstack, err>>
             ELSE IF Len(tstack) >= MaxDepth
             THEN StackOverflow
             ELSE /\ tstack' = Append(Append(Front(tstack), Step(top, n)),
                                      [kind |-> top.kind, todo |-> input.refs[n]])
                  /\ UNCHANGED <<pc, pstack, rstack, err, raised>>
  /\ UNCHANGED <<wvars, ostm, input, fontRes, xobjRes, PageCount, Optimized, pageNumber,
                 calc, visited, seen, pass, snap>>

\* traverseObjectGraphAndMarkDuplicates returns nil.
TraverseReturn ==
  /\ pc = "calc"
  /\ tstack # <<>>
  /\ Last(tstack).todo = {}
  /\ tstack' = Front(tstack)
  /\ UNCHANGED <<wvars, ostm, input, fontRes, xobjRes, Optimize, PageCount, Optimized, pc,
                 pstack, rstack, pageNumber, calc, err, raised, visited, seen,
                 pass, snap>>

\* calcBinarySizes fails when the font descriptor of a registered or of a
\* duplicate font, or the font file of the descriptor, cannot be dereferenced.
calcBinarySizesFails ==
  \E f \in DOMAIN Optimize.FontObjects \cup Optimize.DuplicateFonts :
    \E d \in input.refs[f] :
      DerefFails(d) \/ \E x \in input.refs[d] : DerefFails(x)

\* calcRedundantObjects returns nil; calcBinarySizes; OptimizeXRefTable
\* returns.
EndOptimize ==
  /\ pc = "calc"
  /\ tstack = <<>>
  /\ calc.fonts = {}
  /\ calc.images = {}
  /\ IF calcBinarySizesFails
     THEN Fail /\ UNCHANGED Optimized
     ELSE /\ pc' = "done"
          /\ Optimized' = TRUE
          /\ UNCHANGED <<pstack, rstack, tstack, err, raised>>
  /\ UNCHANGED <<wvars, ostm, input, fontRes, xobjRes, Optimize, PageCount, pageNumber,
                 calc, visited, seen, pass, snap>>

\* OptimizeXRefTable is called again on the context it has returned from.
SecondPass ==
  /\ pc = "done"
  /\ pass = 1
  /\ pass' = 2
  /\ snap' = [O |-> Optimize, F |-> fontRes, X |-> xobjRes]
  /\ pc' = "start"
  /\ raised' = FALSE
  /\ UNCHANGED <<wvars, ostm, input, fontRes, xobjRes, Optimize, PageCount, Optimized,
                 pstack, rstack, pageNumber, calc, tstack, err, visited, seen>>

OptimizeStep ==
  \/ BeginOptimize
  \/ ParsePagesKid
  \/ ParsePagesReturn
  \/ FontEntry
  \/ FontDictDone
  \/ XObjEntry
  \/ ResourcesDone
  \/ CalcPick
  \/ TraverseStep
  \/ TraverseReturn
  \/ EndOptimize

Next == OptimizeStep \/ SecondPass

Spec == Init /\ [][Next]_vars

\* OptimizeXRefTable is called on a second context that holds the same
\* document as the first did.
Restart ==
  /\ pc = "done"
  /\ pass = 1
  /\ pass' = 2
  /\ snap' = [O |-> Optimize, F |-> fontRes, X |-> xobjRes]
  /\ fontRes' = input.font
  /\ xobjRes' = input.xobj
  /\ Optimize' = NewOptimize
  /\ PageCount' = 0
  /\ Optimized' = FALSE
  /\ pc' = "start"
  /\ raised' = FALSE
  /\ visited' = {}
  /\ seen' = <<>>
  /\ UNCHANGED <<wvars, ostm, input, pstack, rstack, pageNumber, calc, tstack, err>>

NextRuns == OptimizeStep \/ Restart

SpecRuns == Init /\ [][NextRuns]_vars

(***************************************************************************)
(* OptimizeXRefTable on documents whose page tree is malformed or whose    *)
(* graph has a cycle: the second kid of the page tree root is a page, no   *)
(* indirect reference, a stream, an object that cannot be dereferenced, a  *)
(* dict without Type or the root itself; the form of the first page has    *)
(* itself among its XObject resources or not; the font file refers back to *)
(* the descriptor or not; the descriptor refers to the font file only or   *)
(* also to an object that cannot be dereferenced.                          *)
(***************************************************************************)
TreeDocs ==
  { [ Doc(("F1" :> FontA), ("F1" :> FontA), ("F1" :> FormFont),
          ("X1" :> Form1), NoDict, Helv, 1, 1, DescB, FontFile)
        EXCEPT !.kids[PagesRoot] = <<Page1, kid>>,
               !.xobj[Form1] = fx,
               !.refs[FontFile] = back,
               !.refs[DescA] = {FontFile} \cup lost ] :
      kid \in {Page2, Direct, FontFile, CorruptObj, NoTypeObj, PagesRoot},
      fx \in {NoDict, ("X1" :> Form1)},
      back \in {{}, {DescA}},
      lost \in {{}, {CorruptObj}} }

TInit ==
  /\ input \in TreeDocs
  /\ fontRes = input.font
  /\ xobjRes = input.xobj
  /\ Optimize = NewOptimize
  /\ PageCount = 0
  /\ Optimized = FALSE
  /\ pc = "start"
  /\ pstack = <<>>
  /\ rstack = <<>>
  /\ pageNumber = 0
  /\ calc = [fonts |-> {}, images |-> {}]
  /\ tstack = <<>>
  /\ err = FALSE
  /\ raised = FALSE
  /\ visited = {}
  /\ seen = <<>>
  /\ pass = 1
  /\ snap = [O |-> NewOptimize, F |-> input.font, X |-> input.xobj]
  /\ XRefTable = <<>>
  /\ Write = <<>>
  /\ Read = <<>>
  /\ conf = <<>>
  /\ wpc = "idle"
  /\ steps = <<>>
  /\ failed = ""
  /\ file = <<>>
  /\ ret = ""
  /\ xref = <<>>
  /\ ostm = <<>>

\* The steps of a call are taken one after the other until it returns.
SpecTree == TInit /\ [][OptimizeStep]_vars /\ WF_vars(OptimizeStep)

(***************************************************************************)
(* The claims about the optimizer.                                         *)
(***************************************************************************)
InSeq(q, x) == \E i \in 1..Len(q) : q[i] = x

SameFont(x, y) ==
  /\ BareName(input.name[x]) = BareName(input.name[y])
  /\ equalFontDicts(x, y) = "eq"

\* C1: every object number recorded in DuplicateFonts has a canonical font
\* registered in FontObjects under the same bare font name that
\* equalFontDicts finds equal to it, and every font resource entry the walk
\* has visited that referred to the duplicate refers to that canonical font.
C1_DedupSound ==
  \A d \in Optimize.DuplicateFonts :
    \E c \in DOMAIN Optimize.FontObjects :
      /\ Optimize.FontObjects[c].FontName = BareName(input.name[d])
      /\ equalFontDicts(Optimize.FontObjects[c].FontDict, d) = "eq"
      /\ \A e \in visited : e.orig = d => fontRes[e.owner][e.key] = c

C1_Witness ==
  /\ pc = "done"
  /\ pass = 1
  /\ \E e \in visited : e.orig \in Optimize.DuplicateFonts

\* C6: a second call of OptimizeXRefTable on the same context ends with the
\* OptimizeState the first call ended with.
C6_Idempotent ==
  (pass = 2 /\ pc = "done") => Optimize = snap.O

\* C7: two calls of OptimizeXRefTable on the same document end with the same
\* canonical and duplicate fonts and images and the same resource entries.
C7_Deterministic ==
  (pass = 2 /\ pc = "done") =>
     /\ Optimize = snap.O
     /\ fontRes = snap.F
     /\ xobjRes = snap.X

\* C8: a call of OptimizeXRefTable in which an error was raised does not
\* return nil.
C8_ErrorsReturned ==
  pc = "done" => ~raised

\* C10 as stated: of equal fonts with the same bare name the canonical one
\* has the lowest object number.
C10_LowestIsCanonical ==
  \A d \in Optimize.DuplicateFonts :
    \A c \in DOMAIN Optimize.FontObjects : SameFont(c, d) => c < d

\* The first font the walk dereferenced that has the bare name of x and is
\* equal to x.
FirstOfClass(x) ==
  seen[CHOOSE i \in 1..Len(seen) :
         /\ SameFont(seen[i], x)
         /\ \A j \in 1..(i - 1) : ~SameFont(seen[j], x)]

IsFirstNamed(fn, x) ==
  BareName(input.name[x]) = fn /\ FirstOfClass(x) = x

\* C10 as amended: of equal fonts with the same bare name the canonical one
\* is the one the walk reached first; the others are in DuplicateFonts and
\* not in FontObjects, the visited resource entries that referred to them
\* refer to the canonical one, and Fonts[name] lists the canonical fonts of
\* the name in the order the walk reached them.
C10_FirstIsCanonical ==
  /\ \A i \in 1..Len(seen) :
       LET x == seen[i]
           c == FirstOfClass(x)
       IN /\ c \in DOMAIN Optimize.FontObjects
          /\ x # c =>
               /\ x \in Optimize.DuplicateFonts
               /\ x \notin DOMAIN Optimize.FontObjects
               /\ \A e \in visited : e.orig = x => fontRes[e.owner][e.key] = c
  /\ \A fn \in DOMAIN Optimize.Fonts :
       Optimize.Fonts[fn] = SelectSeq(seen, LAMBDA x : IsFirstNamed(fn, x))

\* FontB is registered and FontA, which is equal to it, is its duplicate.
C10_Witness ==
  /\ pc = "done"
  /\ FontA \in Optimize.DuplicateFonts
  /\ Has(Optimize.Fonts, Helv)
  /\ Optimize.Fonts[Helv] = <<FontB>>
  /\ \E e \in visited : e.orig = FontA /\ fontRes[e.owner][e.key] = FontB

\* The pages that use the form by their XObject resources.
UsedForms ==
  {f \in Objs : input.kind[f] = "Form" /\
     \E p \in Objs : input.kind[p] = "Page" /\
        \E r \in DOMAIN input.xobj[p] : input.xobj[p][r] = f}

\* C11: when OptimizeXRefTable has returned nil, every font entry of the
\* resources of a form that a page uses is registered, or is recorded as a
\* duplicate and the entry of the form refers to a registered font that is
\* equal to it.
C11_FormFontsDeduplicated ==
  (pc = "done" /\ pass = 1) =>
     \A f \in UsedForms :
       \A r \in DOMAIN input.font[f] :
         LET v == input.font[f][r]
         IN (v # Direct /\ input.kind[v] = "Font") =>
              \/ /\ v \in DOMAIN Optimize.FontObjects
                 /\ fontRes[f][r] = v
              \/ /\ v \in Optimize.DuplicateFonts
                 /\ fontRes[f][r] \in DOMAIN Optimize.FontObjects
                 /\ equalFontDicts(fontRes[f][r], v) = "eq"

\* A font name with a subset prefix: "<prefix>+<name>", the "+" not first.
Prefixed(fn) == Len(fn) = 2 /\ fn[1] # ""

\* C12 as stated: every subset font the walk has processed has a FontObject
\* entry of its own that holds its prefix.
C12_BothKeepPrefix ==
  \A i \in 1..Len(seen) :
    Prefixed(input.name[seen[i]]) =>
       /\ Has(Optimize.FontObjects, seen[i])
       /\ Optimize.FontObjects[seen[i]].Prefix = input.name[seen[i]][1]

\* C12 as amended: a registered subset font is listed under the name after
\* the "+" and its FontObject entry holds the prefix and that name; of two
\* equal subset fonts the walk has processed, the later one is recorded in
\* DuplicateFonts, has no FontObject entry, and the entries that referred to
\* it refer to a registered font listed under the same name.
C12_SubsetCollapse ==
  /\ \A n \in DOMAIN Optimize.FontObjects :
       LET fn == input.name[n]
       IN Prefixed(fn) =>
            /\ Optimize.FontObjects[n].Prefix = fn[1]
            /\ Optimize.FontObjects[n].FontName = Tail(fn)
            /\ Has(Optimize.Fonts, Tail(fn))
            /\ InSeq(Optimize.Fonts[Tail(fn)], n)
  /\ \A i, j \in 1..Len(seen) :
       LET x == seen[i]
           y == seen[j]
       IN (/\ i < j
           /\ Prefixed(input.name[x])
           /\ Prefixed(input.name[y])
           /\ equalFontDicts(x, y) = "eq") =>
            /\ y \in Optimize.DuplicateFonts
            /\ y \notin DOMAIN Optimize.FontObjects
            /\ Has(Optimize.Fonts, Tail(input.name[y]))
            /\ \A e \in visited :
                 e.orig = y =>
                    /\ InSeq(Optimize.Fonts[Tail(input.name[y])], fontRes[e.owner][e.key])
                    /\ equalFontDicts(fontRes[e.owner][e.key], y) = "eq"

\* Two equal subset fonts have collapsed: one is registered with its prefix,
\* the other is its duplicate.
C12_Witness ==
  /\ pc = "done"
  /\ input.name[FontB] = SubHelv
  /\ \E c, d \in {FontB, FontC} :
       /\ c # d
       /\ Has(Optimize.FontObjects, c)
       /\ Optimize.FontObjects[c].Prefix = "ABCDEF"
       /\ Optimize.FontObjects[c].FontName = Helv
       /\ d \in Optimize.DuplicateFonts
       /\ \E e \in visited : e.orig = d /\ fontRes[e.owner][e.key] = c

(***************************************************************************)
(* The writer.  The documents WritePDFFile is applied to.                  *)
(*                                                                         *)
(* A page refers to a font, the font to its descriptor.  A second font,    *)
(* which the optimizer may have found to be a duplicate of the first,      *)
(* refers to the same descriptor or to one of its own, and the page may    *)
(* still refer to it.  Object 8 is a free entry in the free list, a free   *)
(* entry the free list does not reach, an object stream or an xref stream  *)
(* of the input, the primary hint table of a linearized input, or a stream *)
(* the trailer refers to by AdditionalStreams, an image or an info dict    *)
(* the optimizer recorded as redundant, or the Encrypt dict of an          *)
(* encrypted input.  There is no object 9.  Object 11 is a second page,    *)
(* which refers to the first font.                                         *)
(***************************************************************************)
WNr ==
  [ Head |-> 0, Catalog |-> 1, Pages |-> 2, Page |-> 3, Font |-> 4,
    DupFont |-> 5, Desc |-> 6, DupDesc |-> 7, Spare |-> 8, Info |-> 10,
    Page2 |-> 11, Size |-> 12 ]

\* The length every object takes in the output.
ObjLen == 40

Slots == {"free", "orphan", "objstm", "xrefstm", "hint", "extra",
          "dupimage", "dupinfo", "encrypt"}

Modes == {"OPTIMIZE", "ENCRYPT", "DECRYPT"}

\* ctx.Write.ExtractPages: no extraction, or page 1 is retained.
ExtractSets == {{}, {1}}

\* NewXRefTableEntryGen0: an entry in use, of generation 0, not read from a
\* file.  kind and refs stand for the object of the entry.
NewXRefTableEntryGen0(kind, refs) ==
  [ Free |-> FALSE, Compressed |-> FALSE, Offset |-> -1, Generation |-> 0,
    ObjectStream |-> -1, ObjectStreamInd |-> -1, kind |-> kind, refs |-> refs ]

\* An entry in use as the reader leaves it: Offset is where the object is in
\* the input.
ReadEntry(kind, refs, off, gen) ==
  [NewXRefTableEntryGen0(kind, refs) EXCEPT !.Offset = off, !.Generation = gen]

\* A free entry: Offset is the number of the next free object.
FreeEntry(next, gen) ==
  [ Free |-> TRUE, Compressed |-> FALSE, Offset |-> next, Generation |-> gen,
    ObjectStream |-> -1, ObjectStreamInd |-> -1, kind |-> "nil", refs |-> {} ]

WTable(dupDesc, pageRefsDup, slot) ==
  (WNr.Head :> FreeEntry(IF slot = "free" THEN WNr.Spare ELSE 0, 65535)) @@
  (WNr.Catalog :> ReadEntry("Catalog", {WNr.Pages}, 100, 0)) @@
  (WNr.Pages :> ReadEntry("Pages", {WNr.Page, WNr.Page2}, 200, 0)) @@
  (WNr.Page :> ReadEntry("Page", IF pageRefsDup THEN {WNr.Font, WNr.DupFont}
                                 ELSE {WNr.Font}, 300, 0)) @@
  (WNr.Font :> ReadEntry("Font", {WNr.Desc}, 400, 0)) @@
  (WNr.DupFont :> ReadEntry("Font", {dupDesc}, 500, 0)) @@
  (WNr.Desc :> ReadEntry("FontDescriptor", {}, 600, 1)) @@
  (WNr.DupDesc :> ReadEntry("FontDescriptor", {}, 700, 0)) @@
  (WNr.Spare :> CASE slot \in {"free", "orphan"} -> FreeEntry(0, 1)
                  [] slot = "objstm" -> ReadEntry("ObjStm", {}, 800, 0)
                  [] slot = "xrefstm" -> ReadEntry("XRefStm", {}, 800, 0)
                  [] slot = "dupinfo" -> ReadEntry("Info", {}, 800, 0)
                  [] slot = "encrypt" -> ReadEntry("Encrypt", {}, 800, 0)
                  [] OTHER -> ReadEntry("Stream", {}, 800, 0)) @@
  (WNr.Info :> ReadEntry("Info", {}, 900, 0)) @@
  (WNr.Page2 :> ReadEntry("Page", {WNr.Font}, 1000, 0))

WContext(dupDesc, pageRefsDup, slot, idLen) ==
  [ Table |-> WTable(dupDesc, pageRefsDup, slot),
    Size |-> WNr.Size,
    Root |-> WNr.Catalog,
    Info |-> WNr.Info,
    Encrypt |-> IF slot = "encrypt" THEN WNr.Spare ELSE -1,
    EncKey |-> slot = "encrypt",
    ID |-> idLen,
    AdditionalStreams |-> IF slot = "extra" THEN {WNr.Spare} ELSE {},
    LinearizationObjs |-> {},
    OffsetPrimaryHintTable |-> IF slot = "hint" THEN 800 ELSE -1,
    OffsetOverflowHintTable |-> -1 ]

WRead(slot) ==
  [ Linearized |-> slot = "hint",
    UsingXRefStreams |-> slot \in {"objstm", "xrefstm"},
    ObjectStreams |-> IF slot = "objstm" THEN {WNr.Spare} ELSE {},
    XRefStreams |-> IF slot = "xrefstm" THEN {WNr.Spare} ELSE {} ]

\* ctx.Optimize as the optimizer leaves it when it found DupFont to be a
\* duplicate of Font: DuplicateFontObjs holds what DupFont refers to.
WOptimize(dupDesc, dupFound, slot) ==
  LET O == IF dupFound
           THEN [NewOptimize EXCEPT !.DuplicateFonts = {WNr.DupFont},
                                    !.DuplicateFontObjs = {WNr.DupFont, dupDesc}]
           ELSE NewOptimize
  IN CASE slot = "dupimage" ->
            [O EXCEPT !.DuplicateImages = {WNr.Spare},
                      !.DuplicateImageObjs = {WNr.Spare}]
       [] slot = "dupinfo" -> [O EXCEPT !.DuplicateInfoObjects = {WNr.Spare}]
       [] OTHER -> O

(***************************************************************************)
(* Collaborators of the writer: the operations of the XRefTable and the    *)
(* writing of an object.  A context c is [X |-> ctx.XRefTable,             *)
(* W |-> ctx.Write].                                                       *)
(***************************************************************************)
\* InsertAndUseRecycled: the head of the free list when there is one, else a
\* new entry at Size.
InsertAndUseRecycled(X, entry) ==
  LET head == X.Table[0]
      n == head.Offset
  IN IF n = 0
     THEN [ ok |-> TRUE, nr |-> X.Size,
            X |-> [X EXCEPT !.Table = Put(@, X.Size, entry), !.Size = @ + 1] ]
     ELSE IF ~Has(X.Table, n) THEN [ok |-> FALSE, nr |-> 0, X |-> X]
     ELSE [ ok |-> TRUE, nr |-> n,
            X |-> [X EXCEPT !.Table =
                     Put(Put(@, n, entry), 0,
                         [head EXCEPT !.Offset = X.Table[n].Offset])] ]

\* DeleteObject: the entry becomes free and the head of the free list.
DeleteObject(X, n) ==
  IF ~Has(X.Table, n) \/ X.Table[n].Free THEN X
  ELSE LET head == X.Table[0]
       IN [X EXCEPT !.Table =
             Put(Put(@, n, FreeEntry(head.Offset, X.Table[n].Generation)), 0,
                 [head EXCEPT !.Offset = n])]

FreeObjs(X) == {n \in DOMAIN X.Table : n # 0 /\ X.Table[n].Free}

\* The free entries the walk from f does not reach, of those in m; "err"
\* when the walk reaches an entry that is not in m.
RECURSIVE walkFreeList(_, _, _)
walkFreeList(X, f, m) ==
  IF f = 0 THEN [ok |-> TRUE, m |-> m]
  ELSE IF f \notin m THEN [ok |-> FALSE, m |-> m]
  ELSE walkFreeList(X, X.Table[f].Offset, m \ {f})

RECURSIVE relink(_, _)
relink(X, m) ==
  IF m = {} THEN X
  ELSE LET i == CHOOSE x \in m : \A y \in m : x <= y
           head == X.Table[0]
       IN relink([X EXCEPT !.Table =
                    Put(Put(@, i, [X.Table[i] EXCEPT !.Offset = head.Offset]), 0,
                        [head EXCEPT !.Offset = i])],
                 m \ {i})

\* EnsureValidFreeList: the walk from object 0; the free entries it does not
\* reach are linked in.
EnsureValidFreeList(X) ==
  LET w == walkFreeList(X, X.Table[0].Offset, FreeObjs(X))
  IN IF ~(Has(X.Table, 0) /\ X.Table[0].Free) \/ ~w.ok
     THEN [ok |-> FALSE, X |-> X]
     ELSE [ok |-> TRUE, X |-> relink(X, w.m)]

HasWriteOffset(W, n) == Has(W.Table, n)

IsStream(kind) == kind \in {"Stream", "ObjStm", "XRefStm"}

\* writeObject: a no-op for an object that has a write offset; else the
\* offset is recorded, the object is written and the offset advances.
writeObject(c, n) ==
  IF HasWriteOffset(c.W, n) THEN c
  ELSE [c EXCEPT !.W.Table = Put(@, n, c.W.Offset),
                 !.W.Out = Append(@, [obj |-> n, at |-> c.W.Offset]),
                 !.W.Offset = @ + ObjLen]

\* startObjectStream: a new object stream becomes the current one.
startObjectStream(c) ==
  LET ins == InsertAndUseRecycled(c.X, NewXRefTableEntryGen0("ObjStm", {}))
  IN [c EXCEPT !.X = ins.X, !.W.CurrentObjStream = ins.nr, !.W.ObjCount = 0]

\* writeToObjectStream: whether object n goes to an object stream.
ToObjectStream(c, n) ==
  /\ conf.WriteXRefStream
  /\ conf.WriteObjectStream
  /\ c.W.WriteToObjectStream
  /\ c.X.Table[n].Generation = 0
  /\ ~IsStream(c.X.Table[n].kind)

\* The entry of n becomes a compressed entry of the current object stream,
\* n gets a write offset, and the object is added to the stream.
writeToObjectStream(c, n) ==
  LET c1 == IF c.W.CurrentObjStream = -1 THEN startObjectStream(c) ELSE c
  IN [c1 EXCEPT !.X.Table[n].Compressed = TRUE,
                !.X.Table[n].ObjectStream = c1.W.CurrentObjStream,
                !.X.Table[n].ObjectStreamInd = c1.W.ObjCount,
                !.W.Table = Put(@, n, c1.W.Offset),
                !.W.ObjCount = @ + 1]

\* stopObjectStream: the current object stream is written inline.
stopObjectStream(c) ==
  LET c1 == [c EXCEPT !.W.WriteToObjectStream = FALSE]
  IN IF c.W.CurrentObjStream = -1 THEN c1
     ELSE [writeObject(c1, c.W.CurrentObjStream) EXCEPT !.W.CurrentObjStream = -1]

RECURSIVE SortSet(_)
SortSet(S) ==
  IF S = {} THEN <<>>
  ELSE LET m == CHOOSE x \in S : \A y \in S : x <= y
       IN <<m>> \o SortSet(S \ {m})

\* writeDeepObject: the objects of todo and what they refer to, depth first.
RECURSIVE writeDeepObject(_, _)
writeDeepObject(c, todo) ==
  IF todo = <<>> THEN c
  ELSE LET n == Head(todo)
       IN IF ~Has(c.X.Table, n) \/ c.X.Table[n].Free \/ HasWriteOffset(c.W, n)
          THEN writeDeepObject(c, Tail(todo))
          ELSE writeDeepObject(
                 IF ToObjectStream(c, n) THEN writeToObjectStream(c, n)
                 ELSE writeObject(c, n),
                 SortSet(c.X.Table[n].refs) \o Tail(todo))


(***************************************************************************)
(* prepareContextForWriting                                                *)
(***************************************************************************)
\* ensureFileID; fidOk is whether fileID returns no error.
ensureFileID(X, fidOk) ==
  IF ~fidOk THEN [ok |-> FALSE, X |-> X]
  ELSE IF X.ID = 0 THEN [ok |-> TRUE, X |-> [X EXCEPT !.ID = 2]]
  ELSE IF X.ID # 2 THEN [ok |-> FALSE, X |-> X]
  ELSE [ok |-> TRUE, X |-> X]

\* A variant that does not record the reference to the new dict.
setupEncryptionNoRef(X, extOk) ==
  IF ~extOk \/ X.ID = 0 THEN [ok |-> FALSE, X |-> X]
  ELSE LET X1 == [X EXCEPT !.EncKey = TRUE]
           ins == InsertAndUseRecycled(X1, NewXRefTableEntryGen0("Encrypt", {}))
       IN IF ~ins.ok THEN [ok |-> FALSE, X |-> X1]
          ELSE [ok |-> TRUE, X |-> ins.X]

\* A variant that inserts the dict before it looks for errors.
setupEncryptionEager(X, extOk) ==
  LET X1 == [X EXCEPT !.EncKey = TRUE]
      ins == InsertAndUseRecycled(X1, NewXRefTableEntryGen0("Encrypt", {}))
  IN IF ~ins.ok THEN [ok |-> FALSE, X |-> X1]
     ELSE [ ok |-> extOk /\ X.ID # 0,
            X |-> [ins.X EXCEPT !.Encrypt = ins.nr] ]

\* setupEncryption; extOk is whether supportedEncryption, IDFirstElement, o
\* and u return no error.
setupEncryption(X, extOk) ==
  IF ~extOk \/ X.ID = 0 THEN [ok |-> FALSE, X |-> X]
  ELSE LET X1 == [X EXCEPT !.EncKey = TRUE]
           ins == InsertAndUseRecycled(X1, NewXRefTableEntryGen0("Encrypt", {}))
       IN IF ~ins.ok THEN [ok |-> FALSE, X |-> X1]
          ELSE [ok |-> TRUE, X |-> [ins.X EXCEPT !.Encrypt = ins.nr]]

\* updateEncryption; extOk is whether EncryptDict, o and u return no error.
updateEncryption(X, extOk) ==
  IF ~extOk \/ X.Encrypt = -1 THEN [ok |-> FALSE, X |-> X]
  ELSE [ok |-> TRUE, X |-> [X EXCEPT !.EncKey = TRUE]]

\* A variant that does not look at how the input was read.
handleEncryptionAnyInput(X, C, extOk) ==
  LET r == IF C.Mode = "ENCRYPT" THEN setupEncryption(X, extOk)
           ELSE IF C.Mode = "DECRYPT"
           THEN [ok |-> TRUE, X |-> [X EXCEPT !.EncKey = FALSE]]
           ELSE IF C.PWNew \/ C.Mode = "ADDPERMISSIONS"
           THEN updateEncryption(X, extOk)
           ELSE [ok |-> TRUE, X |-> X]
  IN [ ok |-> r.ok, X |-> r.X,
       C |-> IF r.ok /\ r.X.Encrypt # -1 /\ r.X.EncKey
             THEN [C EXCEPT !.WriteObjectStream = FALSE, !.WriteXRefStream = FALSE]
             ELSE C ]

handleEncryption(X, C, extOk) ==
  LET r == IF C.Mode = "ENCRYPT" THEN setupEncryption(X, extOk)
           ELSE IF C.Mode = "DECRYPT"
           THEN [ok |-> TRUE, X |-> [X EXCEPT !.EncKey = FALSE]]
           ELSE IF C.PWNew \/ C.Mode = "ADDPERMISSIONS"
           THEN updateEncryption(X, extOk)
           ELSE [ok |-> TRUE, X |-> X]
  IN [ ok |-> r.ok, X |-> r.X,
       C |-> IF r.ok /\ r.X.Encrypt # -1 /\ r.X.EncKey /\ ~Read.UsingXRefStreams
             THEN [C EXCEPT !.WriteObjectStream = FALSE, !.WriteXRefStream = FALSE]
             ELSE C ]

(***************************************************************************)
(* writeRootObject, writeDocumentInfoDict, writeEncryptDict                *)
(***************************************************************************)
HeaderLen == 8 + 1 + 1 + 4 + 1

\* trimPagesDict for a Pages node whose kids are pages: the kids whose
\* number, counted from 1, is in ExtractPages stay in Kids.
trimPagesDict(c, node) ==
  LET kids == SortSet(c.X.Table[node].refs)
      kept == {kids[k] : k \in {j \in 1..Len(kids) : j \in c.W.ExtractPages}}
  IN [c EXCEPT !.X.Table[node].refs = kept]

RECURSIVE trimPages(_, _)
trimPages(c, nodes) ==
  IF nodes = <<>> THEN c
  ELSE trimPages(trimPagesDict(c, Head(nodes)), Tail(nodes))

\* writePages: the page tree is trimmed when pages are extracted, and goes
\* to an object stream.
writePages(c) ==
  LET pages == {n \in c.X.Table[c.X.Root].refs : c.X.Table[n].kind = "Pages"}
      c1 == IF c.W.ExtractPages # {} THEN trimPages(c, SortSet(pages)) ELSE c
  IN stopObjectStream(
       writeDeepObject([c1 EXCEPT !.W.WriteToObjectStream = TRUE], SortSet(pages)))

writeRootObject(c) == writePages(writeObject(c, c.X.Root))

writeDocumentInfoDict(c) ==
  IF c.X.Info = -1 THEN c ELSE writeDeepObject(c, <<c.X.Info>>)

\* A variant that does not look at the key.
writeEncryptDictKeyless(c) ==
  IF c.X.Encrypt = -1 THEN c ELSE writeObject(c, c.X.Encrypt)

writeEncryptDict(c) ==
  IF c.X.Encrypt = -1 \/ ~c.X.EncKey THEN c ELSE writeObject(c, c.X.Encrypt)

(***************************************************************************)
(* deleteRedundantObjects.  d is [X |-> ctx.XRefTable, O |-> ctx.Optimize].*)
(***************************************************************************)
\* A variant that deletes the duplicates also when a single page is
\* extracted.
deleteRedundantObjectAlways(d, objNr) ==
  IF \/ objNr \in d.O.DuplicateFontObjs
     \/ objNr \in d.O.DuplicateImageObjs
     \/ objNr \in d.X.LinearizationObjs
     \/ objNr \in d.O.DuplicateInfoObjects
     \/ objNr \in Read.ObjectStreams
     \/ objNr \in Read.XRefStreams
  THEN [d EXCEPT !.X = DeleteObject(@, objNr)] ELSE d

deleteRedundantObject(d, objNr) ==
  LET d1 == IF /\ Write.ExtractPageNr = 0
               /\ \/ objNr \in d.O.DuplicateFontObjs
                  \/ objNr \in d.O.DuplicateImageObjs
            THEN [d EXCEPT !.X = DeleteObject(@, objNr)] ELSE d
  IN IF \/ objNr \in d1.X.LinearizationObjs
        \/ objNr \in d1.O.DuplicateInfoObjects
        \/ objNr \in Read.ObjectStreams
        \/ objNr \in Read.XRefStreams
     THEN [d1 EXCEPT !.X = DeleteObject(@, objNr)] ELSE d1

\* The turn of the loop for an entry in use that has no write offset.
deleteUnwritten(d, i) ==
  LET e == d.X.Table[i]
      hint == /\ Read.Linearized
              /\ e.Offset # -1
              /\ e.kind = "Stream"
              /\ \/ e.Offset = d.X.OffsetPrimaryHintTable
                 \/ /\ d.X.OffsetOverflowHintTable # -1
                    /\ e.Offset = d.X.OffsetOverflowHintTable
  IN deleteRedundantObject(
       IF hint THEN [d EXCEPT !.X.LinearizationObjs = @ \cup {i}] ELSE d, i)

\* A variant of the turn that does not look at the write offsets.
deleteTurnUnchecked(d, i) ==
  IF ~Has(d.X.Table, i) \/ d.X.Table[i].Free THEN d ELSE deleteUnwritten(d, i)

\* One turn of the loop of deleteRedundantObjects.
deleteTurn(d, i) ==
  IF ~Has(d.X.Table, i) \/ d.X.Table[i].Free THEN d
  ELSE IF HasWriteOffset(Write, i)
  THEN [d EXCEPT !.O.DuplicateFontObjs = @ \ {i},
                 !.O.DuplicateImageObjs = @ \ {i},
                 !.O.DuplicateInfoObjects = @ \ {i}]
  ELSE deleteUnwritten(d, i)

RECURSIVE deleteLoop(_, _)
deleteLoop(d, i) ==
  IF i >= d.X.Size THEN d ELSE deleteLoop(deleteTurn(d, i), i + 1)

deleteRedundantObjects(X, O) == deleteLoop([X |-> X, O |-> O], 0)

(***************************************************************************)
(* writeXRefTable                                                          *)
(***************************************************************************)
DigitChars == <<"0", "1", "2", "3", "4", "5", "6", "7", "8", "9">>

RECURSIVE Decimal(_)
Decimal(n) ==
  IF n < 10 THEN <<DigitChars[n + 1]>>
  ELSE Append(Decimal(n \div 10), DigitChars[(n % 10) + 1])

RECURSIVE Repeat(_, _)
Repeat(x, k) == IF k <= 0 THEN <<>> ELSE <<x>> \o Repeat(x, k - 1)

\* fmt.Sprintf("%0<width>d", n) for n >= 0.
SprintfD(n, width) == Repeat("0", width - Len(Decimal(n))) \o Decimal(n)

\* fmt.Sprintf("%2s", eol).
SprintfS2(eol) == Repeat(" ", 2 - Len(eol)) \o eol

sortedWritableKeys(X, W) ==
  SortSet({i \in DOMAIN X.Table : X.Table[i].Free \/ HasWriteOffset(W, i)})

\* fmt.Sprintf("%d", n) for the int64 n = hi * 10^9 + lo, where lo has at
\* most nine digits unless hi = 0: offsets are int64 in the code, and hi
\* holds what is beyond the integers of the checker.
DecimalInt64(hi, lo) ==
  IF hi = 0 THEN Decimal(lo) ELSE Decimal(hi) \o SprintfD(lo, 9)

\* fmt.Sprintf("%010d %05d n%2s", off, gen, eol) and the same with f, for
\* off = hi * 10^9 + lo.
SprintfLine(hi, lo, gen, flag, eol) ==
  LET d == DecimalInt64(hi, lo)
  IN Repeat("0", 10 - Len(d)) \o d \o <<" ">> \o SprintfD(gen, 5)
     \o <<" ", flag>> \o SprintfS2(eol)

\* The line writeXRefSubsection writes for entry i.
xRefLine(X, W, i) ==
  LET entry == X.Table[i]
      off == IF Has(W.Table, i) THEN W.Table[i] ELSE 0
  IN IF entry.Free
     THEN SprintfLine(0, entry.Offset, entry.Generation, "f", W.Eol)
     ELSE SprintfLine(0, off, entry.Generation, "n", W.Eol)

writeXRefSubsection(X, W, start, size) ==
  [ ok |-> \A i \in start..(start + size - 1) : ~X.Table[i].Compressed,
    start |-> start,
    size |-> size,
    lines |-> [k \in 1..size |-> xRefLine(X, W, start + k - 1)] ]

\* The loop of writeXRefTable over keys from index i on: the subsections.
RECURSIVE xRefRuns(_, _, _, _)
xRefRuns(keys, i, start, size) ==
  IF i > Len(keys) THEN <<[start |-> start, size |-> size]>>
  ELSE IF keys[i] - keys[i - 1] > 1
  THEN <<[start |-> start, size |-> size]>> \o xRefRuns(keys, i + 1, keys[i], 1)
  ELSE xRefRuns(keys, i + 1, start, size + 1)

writeTrailerDict(X) ==
  [ Size |-> X.Size, Root |-> X.Root, Info |-> X.Info,
    Encrypt |-> IF X.Encrypt # -1 /\ X.EncKey THEN X.Encrypt ELSE -1,
    ID |-> X.ID ]

NoXRef == [kind |-> "none", eof |-> FALSE]

\* A variant that takes the offset after the entries of the table.
writeXRefSectionsLateOffset(X, W) ==
  LET keys == sortedWritableKeys(X, W)
      runs == xRefRuns(keys, 2, keys[1], 1)
      secs == [k \in 1..Len(runs) |->
                 writeXRefSubsection(X, W, runs[k].start, runs[k].size)]
  IN IF \E k \in 1..Len(secs) : ~secs[k].ok
     THEN [ok |-> FALSE, X |-> X, W |-> W, xref |-> NoXRef]
     ELSE [ ok |-> TRUE, X |-> X, W |-> W,
            xref |-> [ kind |-> "table", eof |-> FALSE, sections |-> secs,
                       dict |-> writeTrailerDict(X),
                       startxref |-> Decimal(W.Offset + 20 * Len(keys)) ] ]

\* writeXRefTable after the call of EnsureValidFreeList.
writeXRefSections(X, W) ==
  LET keys == sortedWritableKeys(X, W)
      runs == xRefRuns(keys, 2, keys[1], 1)
      secs == [k \in 1..Len(runs) |->
                 writeXRefSubsection(X, W, runs[k].start, runs[k].size)]
  IN IF \E k \in 1..Len(secs) : ~secs[k].ok
     THEN [ok |-> FALSE, X |-> X, W |-> W, xref |-> NoXRef]
     ELSE [ ok |-> TRUE, X |-> X, W |-> W,
            xref |-> [ kind |-> "table", eof |-> FALSE, sections |-> secs,
                       dict |-> writeTrailerDict(X),
                       startxref |-> Decimal(W.Offset) ] ]

\* A variant of writeXRefTable without the call of EnsureValidFreeList.
writeXRefTableUnrepaired(X, W) == writeXRefSections(X, W)

writeXRefTable(X, W) ==
  LET v == EnsureValidFreeList(X)
  IN IF ~v.ok THEN [ok |-> FALSE, X |-> X, W |-> W, xref |-> NoXRef]
     ELSE writeXRefSections(v.X, W)

(***************************************************************************)
(* writeXRefStream                                                         *)
(***************************************************************************)
\* The bytes of k, the most significant first; none for 0.
RECURSIVE BytesOf(_)
BytesOf(k) == IF k <= 0 THEN <<>> ELSE Append(BytesOf(k \div 256), k % 256)

\* A variant that does not pad.
int64ToBufUnpadded(i, byteCount) == BytesOf(i)

int64ToBuf(i, byteCount) ==
  LET b == BytesOf(i)
  IN IF Len(b) < byteCount THEN Repeat(0, byteCount - Len(b)) \o b ELSE b

\* The closure i2 of writeXRefStream.
RECURSIVE ByteCount(_)
ByteCount(i) == IF i > 0 THEN 1 + ByteCount(i \div 256) ELSE 0

\* The three fields createXRefStream writes for key j.
xRefStreamEntry(X, W, j, i1, i2, i3) ==
  LET entry == X.Table[j]
  IN IF entry.Free
     THEN int64ToBuf(0, i1) \o int64ToBuf(entry.Offset, i2)
          \o int64ToBuf(entry.Generation, i3)
     ELSE IF entry.Compressed
     THEN int64ToBuf(2, i1) \o int64ToBuf(entry.ObjectStream, i2)
          \o int64ToBuf(entry.ObjectStreamInd, i3)
     ELSE int64ToBuf(1, i1) \o int64ToBuf(W.Table[j], i2)
          \o int64ToBuf(entry.Generation, i3)

RECURSIVE xRefStreamBuf(_, _, _, _, _, _, _)
xRefStreamBuf(X, W, keys, i, i1, i2, i3) ==
  IF i > Len(keys) THEN <<>>
  ELSE xRefStreamEntry(X, W, keys[i], i1, i2, i3)
       \o xRefStreamBuf(X, W, keys, i + 1, i1, i2, i3)

\* A variant of the loop that does not look for gaps.
RECURSIVE xRefIndexNoGaps(_, _, _, _)
xRefIndexNoGaps(keys, i, start, size) ==
  IF i > Len(keys) THEN <<start, size>>
  ELSE xRefIndexNoGaps(keys, i + 1, start, size + 1)

\* The loop of createXRefStream over keys from index i on: the Index array.
RECURSIVE xRefIndex(_, _, _, _)
xRefIndex(keys, i, start, size) ==
  IF i > Len(keys) THEN <<start, size>>
  ELSE IF i > 1 /\ keys[i] - keys[i - 1] > 1
  THEN <<start, size>> \o xRefIndex(keys, i + 1, keys[i], 1)
  ELSE xRefIndex(keys, i + 1, start, size + 1)

createXRefStream(X, W, i1, i2, i3) ==
  LET keys == sortedWritableKeys(X, W)
  IN [ ok |-> \A k \in 1..Len(keys) :
                \/ X.Table[keys[k]].Free
                \/ X.Table[keys[k]].Compressed
                \/ Has(W.Table, keys[k]),
       buf |-> xRefStreamBuf(X, W, keys, 1, i1, i2, i3),
       arr |-> xRefIndex(keys, 1, keys[1], 0) ]

NewXRefStreamDict(X) ==
  [ Root |-> X.Root, Info |-> X.Info, ID |-> X.ID,
    Encrypt |-> IF X.Encrypt # -1 /\ X.EncKey THEN X.Encrypt ELSE -1 ]

writeXRefStream(X, W) ==
  LET fail == [ok |-> FALSE, X |-> X, W |-> W, xref |-> NoXRef]
      ins == InsertAndUseRecycled(X, NewXRefTableEntryGen0("XRefStm", {}))
      v == EnsureValidFreeList(ins.X)
      offset == W.Offset
      i2Base == IF offset > v.X.Size THEN offset ELSE v.X.Size
      i2 == ByteCount(i2Base)
      cs == createXRefStream(v.X, W, 1, i2, 2)
      c == writeObject([X |-> v.X, W |-> W], ins.nr)
  IN IF ~ins.ok THEN fail
     ELSE IF ~v.ok THEN [fail EXCEPT !.X = ins.X]
     ELSE IF ~cs.ok THEN [fail EXCEPT !.X = v.X]
     ELSE [ ok |-> TRUE, X |-> c.X, W |-> c.W,
            xref |-> [ kind |-> "stream", eof |-> FALSE, obj |-> ins.nr,
                       dict |-> NewXRefStreamDict(X), Size |-> v.X.Size,
                       W |-> <<1, i2, 2>>, Index |-> cs.arr, content |-> cs.buf,
                       startxref |-> Decimal(offset) ] ]


(***************************************************************************)
(* WritePDFFile, step by step.                                             *)
(***************************************************************************)
WInit ==
  /\ input = Doc(("F1" :> FontB), ("F1" :> FontA), ("F1" :> FormFont),
                 NoDict, NoDict, Helv, 1, 1, DescB, FontFile)
  /\ fontRes = input.font
  /\ xobjRes = input.xobj
  /\ PageCount = 0
  /\ Optimized = TRUE
  /\ pc = "idle"
  /\ pstack = <<>>
  /\ rstack = <<>>
  /\ pageNumber = 0
  /\ calc = [fonts |-> {}, images |-> {}]
  /\ tstack = <<>>
  /\ err = FALSE
  /\ raised = FALSE
  /\ visited = {}
  /\ seen = <<>>
  /\ pass = 1
  /\ snap = [O |-> NewOptimize, F |-> input.font, X |-> input.xobj]
  /\ \E dupDesc \in {WNr.Desc, WNr.DupDesc}, pageRefsDup \in BOOLEAN,
        dupFound \in BOOLEAN, slot \in Slots, idLen \in {0, 1, 2} :
       /\ XRefTable = WContext(dupDesc, pageRefsDup, slot, idLen)
       /\ Read = WRead(slot)
       /\ Optimize = WOptimize(dupDesc, dupFound, slot)
  /\ \E extract \in {0, 1}, pages \in ExtractSets :
       Write = [ Table |-> <<>>, Offset |-> 0, ExtractPageNr |-> extract,
                 ExtractPages |-> pages,
                 WriteToObjectStream |-> FALSE, CurrentObjStream |-> -1,
                 ObjCount |-> 0, Eol |-> <<"\n">>, Out |-> <<>> ]
  /\ \E mode \in Modes, xs \in BOOLEAN, os \in BOOLEAN :
       conf = [ Mode |-> mode, PWNew |-> FALSE,
                WriteXRefStream |-> xs, WriteObjectStream |-> os ]
  /\ wpc = "create"
  /\ steps = <<>>
  /\ failed = ""
  /\ \E cf \in BOOLEAN : file = [created |-> FALSE, closes |-> 0, closeFails |-> cf]
  /\ ret = ""
  /\ xref = NoXRef
  /\ ostm = <<>>

\* A variant of the order of the steps: the cross reference section is
\* written before deleteRedundantObjects runs.
StepAfterSwapped(s) ==
  CASE s = "prepare" -> "header"
    [] s = "header" -> "root"
    [] s = "root" -> "info"
    [] s = "info" -> "streams"
    [] s = "streams" -> "encrypt"
    [] s = "encrypt" -> "xref"
    [] s = "xref" -> "delete"
    [] s = "delete" -> "trailer"
    [] s = "trailer" -> "filesize"
    [] OTHER -> "return"

\* The step WritePDFFile goes to when step s has returned no error.
StepAfter(s) ==
  CASE s = "prepare" -> "header"
    [] s = "header" -> "root"
    [] s = "root" -> "info"
    [] s = "info" -> "streams"
    [] s = "streams" -> "encrypt"
    [] s = "encrypt" -> "delete"
    [] s = "delete" -> "xref"
    [] s = "xref" -> "trailer"
    [] s = "trailer" -> "filesize"
    [] OTHER -> "return"

\* Step s has run; WritePDFFile returns the error when there is one.
Done(s, ok) ==
  /\ steps' = Append(steps, s)
  /\ wpc' = IF ok THEN StepAfter(s) ELSE "return"
  /\ failed' = IF ok THEN failed ELSE s

\* A step that writes: c is the context the step leaves when no write fails.
Emit(s, c, canFail) ==
  \E ok \in {TRUE, ~canFail} :
    /\ Done(s, ok)
    /\ IF ok THEN XRefTable' = c.X /\ Write' = c.W
       ELSE UNCHANGED <<XRefTable, Write>>
    /\ UNCHANGED <<ovars, ostm, Optimize, Read, conf, file, ret, xref>>

Ctx == [X |-> XRefTable, W |-> Write]

Create ==
  /\ wpc = "create"
  /\ \E ok \in BOOLEAN :
       IF ok
       THEN /\ file' = [file EXCEPT !.created = TRUE]
            /\ wpc' = "prepare"
            /\ ret' = ret
       ELSE /\ wpc' = "returned"
            /\ ret' = "create"
            /\ file' = file
  /\ UNCHANGED <<ovars, ostm, Optimize, XRefTable, Write, Read, conf, steps, failed, xref>>

\* prepareContextForWriting; ext is the collaborator that returns an error.
Prepare ==
  /\ wpc = "prepare"
  /\ \E ext \in {"none", "ensureInfoDict", "fileID", "encrypt"} :
       LET f == ensureFileID(XRefTable, ext # "fileID")
           h == handleEncryption(f.X, conf, ext # "encrypt")
       IN IF ext = "ensureInfoDict"
          THEN Done("prepare", FALSE) /\ UNCHANGED <<XRefTable, conf>>
          ELSE IF ~f.ok
          THEN Done("prepare", FALSE) /\ UNCHANGED <<XRefTable, conf>>
          ELSE /\ Done("prepare", h.ok)
               /\ XRefTable' = h.X
               /\ conf' = h.C
  /\ UNCHANGED <<ovars, ostm, Optimize, Write, Read, file, ret, xref>>

WriteHeader ==
  /\ wpc = "header"
  /\ Emit("header", [Ctx EXCEPT !.W.Offset = @ + HeaderLen], TRUE)

WriteRootObject ==
  /\ wpc = "root"
  /\ Emit("root", writeRootObject(Ctx), TRUE)

WriteDocumentInfoDict ==
  /\ wpc = "info"
  /\ Emit("info", writeDocumentInfoDict(Ctx), TRUE)

WriteAdditionalStreams ==
  /\ wpc = "streams"
  /\ Emit("streams", writeDeepObject(Ctx, SortSet(XRefTable.AdditionalStreams)),
          XRefTable.AdditionalStreams # {})

WriteEncryptDict ==
  /\ wpc = "encrypt"
  /\ Emit("encrypt", writeEncryptDict(Ctx), XRefTable.Encrypt # -1 /\ XRefTable.EncKey)

DeleteRedundantObjects ==
  /\ wpc = "delete"
  /\ LET d == deleteRedundantObjects(XRefTable, Optimize)
     IN /\ XRefTable' = d.X
        /\ Optimize' = d.O
  /\ Done("delete", TRUE)
  /\ UNCHANGED <<ovars, ostm, Write, Read, conf, file, ret, xref>>

\* writeXRef; r is what writeXRefTable or writeXRefStream leaves when no
\* write fails.
WriteXRef(r) ==
  \E wok \in BOOLEAN :
    /\ Done("xref", r.ok /\ wok)
    /\ XRefTable' = r.X
    /\ IF r.ok /\ wok THEN Write' = r.W /\ xref' = r.xref
       ELSE UNCHANGED <<Write, xref>>
    /\ UNCHANGED <<ovars, ostm, Optimize, Read, conf, file, ret>>

WriteXRefTable ==
  /\ wpc = "xref"
  /\ ~conf.WriteXRefStream
  /\ WriteXRef(writeXRefTable(XRefTable, Write))

WriteXRefStream ==
  /\ wpc = "xref"
  /\ conf.WriteXRefStream
  /\ WriteXRef(writeXRefStream(XRefTable, Write))

WriteTrailer ==
  /\ wpc = "trailer"
  /\ \E ok \in BOOLEAN :
       /\ Done("trailer", ok)
       /\ xref' = IF ok THEN [xref EXCEPT !.eof = TRUE] ELSE xref
  /\ UNCHANGED <<ovars, ostm, Optimize, XRefTable, Write, Read, conf, file, ret>>

SetFileSizeOfWrittenFile ==
  /\ wpc = "filesize"
  /\ \E ok \in BOOLEAN : Done("filesize", ok)
  /\ UNCHANGED <<ovars, ostm, Optimize, XRefTable, Write, Read, conf, file, ret, xref>>

\* WritePDFFile returns, and the deferred function runs: it closes the file;
\* when no step failed it assigns what Close returns to the variable err of
\* WritePDFFile, which is not the result of WritePDFFile.
Return ==
  /\ wpc = "return"
  /\ wpc' = "returned"
  /\ file' = [file EXCEPT !.closes = @ + 1]
  /\ ret' = IF failed # "" THEN failed ELSE "nil"
  /\ UNCHANGED <<ovars, ostm, Optimize, XRefTable, Write, Read, conf, steps, failed, xref>>

NextWrite ==
  \/ Create
  \/ Prepare
  \/ WriteHeader
  \/ WriteRootObject
  \/ WriteDocumentInfoDict
  \/ WriteAdditionalStreams
  \/ WriteEncryptDict
  \/ DeleteRedundantObjects
  \/ WriteXRefTable
  \/ WriteXRefStream
  \/ WriteTrailer
  \/ SetFileSizeOfWrittenFile
  \/ Return

SpecWrite == WInit /\ [][NextWrite]_vars


(***************************************************************************)
(* writeXRef and what follows it, from the context of a document with the  *)
(* objects 1 to 4 and 7, all written: the offsets the objects were written *)
(* at depend on their lengths, and the last but one is so long that the    *)
(* write offset is at, just below or just above a power of 256.            *)
(***************************************************************************)
XNr == [Catalog |-> 1, Pages |-> 2, Page |-> 3, Font |-> 4, Gap |-> 5,
        Info |-> 7, Size |-> 8]

\* The generations of an object in use.
Generations == {0, 1, 65535}

Eols == {<<"\n">>, <<"\r">>, <<"\r", "\n">>}

\* gapFree: object 5 is a free entry; ind: -1, or the index of the page in
\* the object stream that object 4 then is.
XTable(gapFree, gen, ind) ==
  LET page == ReadEntry("Page", {}, 300, 0)
  IN (0 :> FreeEntry(IF gapFree THEN XNr.Gap ELSE 0, 65535)) @@
     (XNr.Catalog :> ReadEntry("Catalog", {XNr.Pages}, 100, 0)) @@
     (XNr.Pages :> ReadEntry("Pages", {XNr.Page}, 200, 0)) @@
     (XNr.Page :> IF ind = -1 THEN page
                  ELSE [page EXCEPT !.Compressed = TRUE,
                                    !.ObjectStream = XNr.Font,
                                    !.ObjectStreamInd = ind]) @@
     (XNr.Font :> IF ind = -1 THEN ReadEntry("Font", {}, 400, gen)
                  ELSE NewXRefTableEntryGen0("ObjStm", {})) @@
     (IF gapFree THEN (XNr.Gap :> FreeEntry(0, gen)) ELSE <<>>) @@
     (XNr.Info :> ReadEntry("Info", {}, 700, gen))

XInit ==
  /\ input = Doc(("F1" :> FontB), ("F1" :> FontA), ("F1" :> FormFont),
                 NoDict, NoDict, Helv, 1, 1, DescB, FontFile)
  /\ fontRes = input.font
  /\ xobjRes = input.xobj
  /\ PageCount = 0
  /\ Optimized = TRUE
  /\ pc = "idle"
  /\ pstack = <<>>
  /\ rstack = <<>>
  /\ pageNumber = 0
  /\ calc = [fonts |-> {}, images |-> {}]
  /\ tstack = <<>>
  /\ err = FALSE
  /\ raised = FALSE
  /\ visited = {}
  /\ seen = <<>>
  /\ pass = 1
  /\ snap = [O |-> NewOptimize, F |-> input.font, X |-> input.xobj]
  /\ Optimize = NewOptimize
  /\ Read = WRead("orphan")
  /\ \E xs \in BOOLEAN, gapFree \in BOOLEAN, gen \in Generations,
        ind \in {-1, 0, 200},
        end \in {255, 256, 257, 65535, 65536, 16777216, 2147483000},
        eol \in Eols :
       /\ ind # -1 => xs
       /\ conf = [ Mode |-> "OPTIMIZE", PWNew |-> FALSE,
                   WriteXRefStream |-> xs, WriteObjectStream |-> ind # -1 ]
       /\ XRefTable =
            [ Table |-> XTable(gapFree, gen, ind),
              Size |-> XNr.Size, Root |-> XNr.Catalog, Info |-> XNr.Info,
              Encrypt |-> -1, EncKey |-> FALSE, ID |-> 2,
              AdditionalStreams |-> {}, LinearizationObjs |-> {},
              OffsetPrimaryHintTable |-> -1, OffsetOverflowHintTable |-> -1 ]
       /\ LET order == IF ind = -1
                       THEN <<XNr.Catalog, XNr.Pages, XNr.Page, XNr.Font, XNr.Info>>
                       ELSE <<XNr.Catalog, XNr.Pages, XNr.Font, XNr.Info>>
              out == [k \in 1..Len(order) |->
                        [ obj |-> order[k],
                          at |-> IF k = Len(order) THEN end - ObjLen
                                 ELSE HeaderLen + (k - 1) * ObjLen ]]
              pos == [n \in {out[k].obj : k \in 1..Len(out)} |->
                        out[CHOOSE k \in 1..Len(out) : out[k].obj = n].at]
          IN Write = [ Table |-> IF ind = -1 THEN pos
                                 ELSE Put(pos, XNr.Page, pos[XNr.Font]),
                       Offset |-> end, ExtractPageNr |-> 0,
                       ExtractPages |-> {},
                       WriteToObjectStream |-> FALSE, CurrentObjStream |-> -1,
                       ObjCount |-> 0, Eol |-> eol, Out |-> out ]
  /\ wpc = "xref"
  /\ steps = <<"prepare", "header", "root", "info", "streams", "encrypt", "delete">>
  /\ failed = ""
  /\ \E cf \in BOOLEAN : file = [created |-> TRUE, closes |-> 0, closeFails |-> cf]
  /\ ret = ""
  /\ xref = NoXRef
  /\ ostm = <<>>

NextXRef ==
  \/ WriteXRefTable
  \/ WriteXRefStream
  \/ WriteTrailer
  \/ SetFileSizeOfWrittenFile
  \/ Return

SpecXRef == XInit /\ [][NextXRef]_vars

(***************************************************************************)
(* The loop of writeXRefSubsection by itself: an iteration writes the line *)
(* of an entry, for entries and write offsets of the whole range of their  *)
(* types.                                                                  *)
(***************************************************************************)
LInit ==
  /\ input = Doc(("F1" :> FontB), ("F1" :> FontA), ("F1" :> FormFont),
                 NoDict, NoDict, Helv, 1, 1, DescB, FontFile)
  /\ fontRes = input.font
  /\ xobjRes = input.xobj
  /\ PageCount = 0
  /\ Optimized = TRUE
  /\ pc = "idle"
  /\ pstack = <<>>
  /\ rstack = <<>>
  /\ pageNumber = 0
  /\ calc = [fonts |-> {}, images |-> {}]
  /\ tstack = <<>>
  /\ err = FALSE
  /\ raised = FALSE
  /\ visited = {}
  /\ seen = <<>>
  /\ pass = 1
  /\ snap = [O |-> NewOptimize, F |-> input.font, X |-> input.xobj]
  /\ Optimize = NewOptimize
  /\ Read = WRead("orphan")
  /\ conf = [ Mode |-> "OPTIMIZE", PWNew |-> FALSE,
              WriteXRefStream |-> FALSE, WriteObjectStream |-> FALSE ]
  /\ XRefTable =
       [ Table |-> XTable(FALSE, 0, -1),
         Size |-> XNr.Size, Root |-> XNr.Catalog, Info |-> XNr.Info,
         Encrypt |-> -1, EncKey |-> FALSE, ID |-> 2,
         AdditionalStreams |-> {}, LinearizationObjs |-> {},
         OffsetPrimaryHintTable |-> -1, OffsetOverflowHintTable |-> -1 ]
  /\ \E eol \in Eols :
       Write = [ Table |-> <<>>, Offset |-> HeaderLen, ExtractPageNr |-> 0,
                 ExtractPages |-> {},
                 WriteToObjectStream |-> FALSE, CurrentObjStream |-> -1,
                 ObjCount |-> 0, Eol |-> eol, Out |-> <<>> ]
  /\ wpc = "subsection"
  /\ steps = <<"prepare", "header", "root", "info", "streams", "encrypt", "delete">>
  /\ failed = ""
  /\ file = [created |-> TRUE, closes |-> 0, closeFails |-> FALSE]
  /\ ret = ""
  /\ xref = NoXRef
  /\ ostm = <<>>

\* An iteration of the loop of writeXRefSubsection, for an entry that is
\* free, with the next free object lo, or in use and written at the offset
\* hi * 10^9 + lo.
WriteXRefLine ==
  /\ wpc = "subsection"
  /\ \E free \in BOOLEAN, hi \in {0, 9, 10, 2147483}, lo \in {0, 17, 999999999},
        gen \in Generations, start \in 0..1 :
       /\ free => hi = 0 /\ lo < XRefTable.Size
       /\ xref' = [ kind |-> "table", eof |-> FALSE,
                    sections |->
                      << [ ok |-> TRUE, start |-> start, size |-> 1,
                           lines |-> << SprintfLine(hi, lo, gen,
                                                    IF free THEN "f" ELSE "n",
                                                    Write.Eol) >> ] >>,
                    dict |-> writeTrailerDict(XRefTable),
                    startxref |-> Decimal(Write.Offset) ]
  /\ UNCHANGED <<ovars, ostm, Optimize, XRefTable, Write, Read, conf, wpc, steps,
                 failed, file, ret>>

SpecLine == LInit /\ [][WriteXRefLine]_vars

(***************************************************************************)
(* The object stream: NewObjectStreamDict, AddObject and Finalize.  A byte *)
(* buffer is the sequence of its characters.  An object is its type and    *)
(* the text PDFString gives for it.                                        *)
(***************************************************************************)
MaxObjs == 3

StreamObjects ==
  { [type |-> "Dict", str |-> <<"<", "<", "/", "A", " ", "1", ">", ">">>],
    [type |-> "Array", str |-> <<"[", "1", " ", "2", "]">>],
    [type |-> "Integer", str |-> <<"4", "2">>],
    [type |-> "Name", str |-> <<"/", "N">>],
    [type |-> "Boolean", str |-> <<"t", "r", "u", "e">>],
    [type |-> "StreamDict", str |-> <<>>],
    [type |-> "IndirectRef", str |-> <<>>],
    [type |-> "Null", str |-> <<>>] }

PDFString(obj) == obj.str

NewObjectStreamDict ==
  [ Prolog |-> <<>>, Content |-> <<>>, ObjCount |-> 0, FirstObjOffset |-> 0,
    calls |-> <<>>, final |-> FALSE ]

\* AddObject taking the offset after the object was appended.
AddObjectOffsetAfter(o, objNumber, entry) ==
  LET packed == entry.Object.type \in
                  {"Dict", "Array", "Integer", "Float", "StringLiteral",
                   "HexLiteral", "Boolean", "Name"}
      c == IF packed THEN o.Content \o PDFString(entry.Object) ELSE o.Content
      s == (IF o.ObjCount > 0 THEN <<" ">> ELSE <<>>)
             \o Decimal(objNumber) \o <<" ">> \o Decimal(Len(c))
      p == [o EXCEPT !.Prolog = @ \o s]
  IN IF packed
       THEN [err |-> FALSE, o |-> [p EXCEPT !.Content = c, !.ObjCount = @ + 1]]
       ELSE [err |-> TRUE, o |-> p]

\* AddObject: the pair is appended to the prolog before the switch on the
\* type of the object, whose default case returns the error.
AddObject(o, objNumber, entry) ==
  LET offset == Len(o.Content)
      s == (IF o.ObjCount > 0 THEN <<" ">> ELSE <<>>)
             \o Decimal(objNumber) \o <<" ">> \o Decimal(offset)
      p == [o EXCEPT !.Prolog = @ \o s]
  IN IF entry.Object.type \in
          {"Dict", "Array", "Integer", "Float", "StringLiteral",
           "HexLiteral", "Boolean", "Name"}
       THEN [err |-> FALSE,
             o |-> [p EXCEPT !.Content = @ \o PDFString(entry.Object),
                             !.ObjCount = @ + 1]]
       ELSE [err |-> TRUE, o |-> p]

Finalize(o) ==
  [o EXCEPT !.Content = o.Prolog \o @, !.FirstObjOffset = Len(o.Prolog)]

OInit ==
  /\ input = Doc(("F1" :> FontB), ("F1" :> FontA), ("F1" :> FormFont),
                 NoDict, NoDict, Helv, 1, 1, DescB, FontFile)
  /\ fontRes = input.font
  /\ xobjRes = input.xobj
  /\ Optimize = NewOptimize
  /\ PageCount = 0
  /\ Optimized = FALSE
  /\ pc = "idle"
  /\ pstack = <<>>
  /\ rstack = <<>>
  /\ pageNumber = 0
  /\ calc = [fonts |-> {}, images |-> {}]
  /\ tstack = <<>>
  /\ err = FALSE
  /\ raised = FALSE
  /\ visited = {}
  /\ seen = <<>>
  /\ pass = 1
  /\ snap = [O |-> NewOptimize, F |-> input.font, X |-> input.xobj]
  /\ XRefTable = <<>>
  /\ Write = <<>>
  /\ Read = <<>>
  /\ conf = <<>>
  /\ wpc = "idle"
  /\ steps = <<>>
  /\ failed = ""
  /\ file = <<>>
  /\ ret = ""
  /\ xref = <<>>
  /\ ostm = NewObjectStreamDict

\* A call of AddObject, for at most MaxObjs calls.
CallAddObject ==
  /\ ~ostm.final
  /\ Len(ostm.calls) < MaxObjs
  /\ \E objNumber \in {7, 12}, obj \in StreamObjects :
       LET r == AddObject(ostm, objNumber, [Object |-> obj])
       IN ostm' = [r.o EXCEPT !.calls = Append(@, [nr |-> objNumber,
                                                   obj |-> obj,
                                                   ok |-> ~r.err])]
  /\ UNCHANGED <<ovars, Optimize, wvars>>

CallFinalize ==
  /\ ~ostm.final
  /\ ostm' = [Finalize(ostm) EXCEPT !.final = TRUE]
  /\ UNCHANGED <<ovars, Optimize, wvars>>

SpecObjStm == OInit /\ [][CallAddObject \/ CallFinalize]_vars



(***************************************************************************)
(* The cross reference section as a reader finds it in the output.         *)
(***************************************************************************)
DigitValue(ch) == (CHOOSE d \in 1..10 : DigitChars[d] = ch) - 1

RECURSIVE DecimalValue(_)
DecimalValue(s) ==
  IF s = <<>> THEN 0 ELSE DecimalValue(Front(s)) * 10 + DigitValue(Last(s))

RECURSIVE BytesValue(_)
BytesValue(b) ==
  IF b = <<>> THEN 0 ELSE BytesValue(Front(b)) * 256 + Last(b)

\* The entry a line of 20 bytes of a classical table stands for.
LineEntry(nr, line) ==
  [ nr |-> nr,
    type |-> line[18],
    f2 |-> DecimalValue(SubSeq(line, 1, 10)),
    f3 |-> DecimalValue(SubSeq(line, 12, 16)) ]

RECURSIVE TableEntries(_)
TableEntries(secs) ==
  IF secs = <<>> THEN <<>>
  ELSE LET s == Head(secs)
       IN [k \in 1..s.size |-> LineEntry(s.start + k - 1, s.lines[k])]
          \o TableEntries(Tail(secs))

\* The object numbers an Index array stands for, in order.
RECURSIVE IndexNrs(_)
IndexNrs(arr) ==
  IF Len(arr) < 2 THEN <<>>
  ELSE [k \in 1..arr[2] |-> arr[1] + k - 1] \o IndexNrs(Tail(Tail(arr)))

\* The k-th entry of the data of an xref stream with field widths w.
StreamEntry(nr, content, w, k) ==
  LET at == (k - 1) * (w[1] + w[2] + w[3])
      t == BytesValue(SubSeq(content, at + 1, at + w[1]))
  IN [ nr |-> nr,
       type |-> IF t = 0 THEN "f" ELSE IF t = 1 THEN "n" ELSE "c",
       f2 |-> BytesValue(SubSeq(content, at + w[1] + 1, at + w[1] + w[2])),
       f3 |-> BytesValue(SubSeq(content, at + w[1] + w[2] + 1,
                                at + w[1] + w[2] + w[3])) ]

StreamEntries(x) ==
  LET nrs == IndexNrs(x.Index)
      n == Len(x.content) \div (x.W[1] + x.W[2] + x.W[3])
  IN [k \in 1..(IF n < Len(nrs) THEN n ELSE Len(nrs)) |->
        StreamEntry(nrs[k], x.content, x.W, k)]

XRefEntries ==
  IF xref.kind = "table" THEN TableEntries(xref.sections)
  ELSE IF xref.kind = "stream" THEN StreamEntries(xref)
  ELSE <<>>

EntriesOf(ents, n) == {k \in 1..Len(ents) : ents[k].nr = n}

\* Entry e says of object n what the table and the write offsets say.
EntryMatches(e, n) ==
  LET t == XRefTable.Table[n]
  IN IF t.Free
     THEN e.type = "f" /\ e.f2 = t.Offset /\ e.f3 = t.Generation
     ELSE IF t.Compressed
     THEN e.type = "c" /\ e.f2 = t.ObjectStream /\ e.f3 = t.ObjectStreamInd
     ELSE /\ e.type = "n"
          /\ HasWriteOffset(Write, n)
          /\ e.f2 = Write.Table[n]
          /\ e.f3 = t.Generation
          /\ \E i \in 1..Len(Write.Out) : Write.Out[i] = [obj |-> n, at |-> e.f2]

(***************************************************************************)
(* The claims about the writer.                                            *)
(***************************************************************************)
Ran(s) == InSeq(steps, s)

\* C2: an object that has a write offset is in use, before and after
\* deleteRedundantObjects; when deleteRedundantObjects has returned it is in
\* none of DuplicateFontObjs, DuplicateImageObjs and DuplicateInfoObjects;
\* and what a written font refers to is in use.
C2_DeletionSafe ==
  \A n \in DOMAIN Write.Table :
    /\ Has(XRefTable.Table, n)
    /\ ~XRefTable.Table[n].Free
    /\ wpc = "xref" =>
         /\ n \notin Optimize.DuplicateFontObjs
         /\ n \notin Optimize.DuplicateImageObjs
         /\ n \notin Optimize.DuplicateInfoObjects
    /\ XRefTable.Table[n].kind = "Font" =>
         \A d \in XRefTable.Table[n].refs :
           Has(XRefTable.Table, d) /\ ~XRefTable.Table[d].Free

\* The duplicate font was deleted; the descriptor it shares with the font
\* that was written is in use and no longer in DuplicateFontObjs.
C2_Witness ==
  /\ wpc = "xref"
  /\ Optimize.DuplicateFonts = {WNr.DupFont}
  /\ Optimize.DuplicateFontObjs = {WNr.DupFont}
  /\ XRefTable.Table[WNr.DupFont].Free
  /\ HasWriteOffset(Write, WNr.Font)
  /\ HasWriteOffset(Write, WNr.Desc)

\* C3: once the cross reference section is written, every object that is
\* free or has a write offset has exactly one entry in it, and the entry
\* says what the table and the write offsets say: a free entry the next free
\* object and the generation, an entry in use the write offset, at which the
\* object begins in the output, and the generation.
C3_XRefConsistent ==
  xref.kind # "none" =>
    LET ents == XRefEntries
    IN \A n \in DOMAIN XRefTable.Table :
         (XRefTable.Table[n].Free \/ HasWriteOffset(Write, n)) =>
            /\ Cardinality(EntriesOf(ents, n)) = 1
            /\ \A k \in EntriesOf(ents, n) : EntryMatches(ents[k], n)

\* The free entries of the cross reference section ents: the object each
\* names as the next free one.
NextFree(ents) ==
  LET free == {k \in 1..Len(ents) : ents[k].type = "f"}
  IN [n \in {ents[k].nr : k \in free} |->
        ents[CHOOSE k \in free : ents[k].nr = n].f2]

\* The walk from f along next: ok is whether it ends at object 0 without
\* reaching an object twice, m the objects it reached.
RECURSIVE FreeWalk(_, _, _)
FreeWalk(next, f, m) ==
  IF f = 0 THEN [ok |-> TRUE, m |-> m]
  ELSE IF f \in m \/ f \notin DOMAIN next THEN [ok |-> FALSE, m |-> m]
  ELSE FreeWalk(next, next[f], m \cup {f})

\* C4: in the cross reference section that is written, the walk from
\* object 0 along the numbers of the next free object reaches every free
\* entry of the table once and ends at object 0.
C4_FreeListValid ==
  xref.kind # "none" =>
    LET next == NextFree(XRefEntries)
        walk == FreeWalk(next, next[0], {})
    IN /\ XRefTable.Table[0].Free
       /\ 0 \in DOMAIN next
       /\ walk.ok
       /\ walk.m = FreeObjs(XRefTable)

\* An xref stream was written after objects were deleted, the number of a
\* free entry was used again, and a free entry the list did not reach was
\* linked in.
C4_Witness ==
  /\ xref.kind = "stream"
  /\ Ran("delete")
  /\ XRefTable.Table[WNr.Spare].Free
  /\ XRefTable.Table[WNr.DupFont].Free
  /\ XRefTable.Table[WNr.DupDesc].kind = "XRefStm"
  /\ XRefTable.Table[0].Offset # 0

Order ==
  << "prepare", "header", "root", "info", "streams", "encrypt", "delete",
     "xref", "trailer", "filesize" >>

\* The objects in use the trailer refers to, and those they refer to.
RECURSIVE RefClosure(_)
RefClosure(S) ==
  LET T == S \cup
           { d \in UNION { XRefTable.Table[n].refs : n \in S } :
               Has(XRefTable.Table, d) /\ ~XRefTable.Table[d].Free }
  IN IF T = S THEN S ELSE RefClosure(T)

Referenced ==
  RefClosure({XRefTable.Root}
             \cup (IF XRefTable.Info # -1 THEN {XRefTable.Info} ELSE {})
             \cup XRefTable.AdditionalStreams
             \cup (IF XRefTable.Encrypt # -1 /\ XRefTable.EncKey
                   THEN {XRefTable.Encrypt} ELSE {}))

\* C5: the steps of WritePDFFile that were started are the first steps of
\* the fixed order; after a step that failed no step is started; when
\* deleteRedundantObjects is about to run every referenced object has a
\* write offset; and the cross reference section is written after
\* deleteRedundantObjects has run.
C5_StepOrder ==
  /\ Len(steps) <= Len(Order)
  /\ steps = SubSeq(Order, 1, Len(steps))
  /\ failed # "" => (steps # <<>> /\ Last(steps) = failed
                     /\ wpc \in {"return", "returned"})
  /\ wpc = "delete" => \A n \in Referenced : HasWriteOffset(Write, n)
  /\ xref.kind # "none" => (Ran("delete") /\ Ran("encrypt"))

\* All steps have run, and WritePDFFile has returned nil.
C5_Witness ==
  /\ wpc = "returned"
  /\ steps = Order
  /\ ret = "nil"
  /\ xref.eof

\* C9: when WritePDFFile has returned and had created the file, Close was
\* called once; the error of a step that failed is returned; and when no
\* step failed and Close returned an error, that error is returned.
C9_CloseReported ==
  (wpc = "returned" /\ file.created) =>
     /\ file.closes = 1
     /\ failed # "" => ret = failed
     /\ (failed = "" /\ file.closeFails) => ret = "close"

\* What makes deleteRedundantObjects delete object i, in the state it is
\* called in.
Redundant(i) ==
  LET e == XRefTable.Table[i]
  IN \/ /\ Write.ExtractPageNr = 0
        /\ i \in Optimize.DuplicateFontObjs \cup Optimize.DuplicateImageObjs
     \/ i \in XRefTable.LinearizationObjs
     \/ /\ Read.Linearized
        /\ e.kind = "Stream"
        /\ e.Offset # -1
        /\ e.Offset \in ({XRefTable.OffsetPrimaryHintTable,
                          XRefTable.OffsetOverflowHintTable} \ {-1})
     \/ i \in Optimize.DuplicateInfoObjects
     \/ i \in Read.ObjectStreams \cup Read.XRefStreams

\* C13: deleteRedundantObjects leaves a missing entry missing, a free entry
\* free and a written object as it is; an object in use that was not
\* written becomes free if and only if it is a duplicate font or image
\* object while no single page is extracted, a linearization object or a
\* hint table, a duplicate info object, or an object stream or xref stream
\* of the input, and keeps its entry otherwise.
C13_DeletedIffRedundant ==
  [][wpc = "delete" =>
       \A i \in 0..(XRefTable.Size - 1) :
         IF ~Has(XRefTable.Table, i) THEN ~Has(XRefTable'.Table, i)
         ELSE IF XRefTable.Table[i].Free
         THEN /\ XRefTable'.Table[i].Free
              /\ i # 0 => XRefTable'.Table[i] = XRefTable.Table[i]
         ELSE IF HasWriteOffset(Write, i)
         THEN XRefTable'.Table[i] = XRefTable.Table[i]
         ELSE /\ XRefTable'.Table[i].Free <=> Redundant(i)
              /\ ~Redundant(i) => XRefTable'.Table[i] = XRefTable.Table[i]]_vars

\* A single page is extracted: the unwritten duplicate font keeps its entry,
\* and the hint table of the linearized input is deleted.
C13_Witness ==
  /\ wpc = "xref"
  /\ Write.ExtractPageNr # 0
  /\ WNr.DupFont \in Optimize.DuplicateFontObjs
  /\ ~HasWriteOffset(Write, WNr.DupFont)
  /\ ~XRefTable.Table[WNr.DupFont].Free
  /\ Read.Linearized
  /\ XRefTable.Table[WNr.Spare].Free

\* The pages the trimmed page tree does not hold.
DroppedPages ==
  {n \in DOMAIN XRefTable.Table :
     /\ XRefTable.Table[n].kind = "Page"
     /\ \A p \in DOMAIN XRefTable.Table :
          XRefTable.Table[p].kind = "Pages" => n \notin XRefTable.Table[p].refs}

\* C14: when pages are extracted, every page that is not retained has a
\* free entry in the cross reference section that is written.
C14_DroppedPagesFree ==
  (xref.kind # "none" /\ Write.ExtractPages # {}) =>
     LET ents == XRefEntries
     IN \A n \in DroppedPages :
          \E k \in EntriesOf(ents, n) : ents[k].type = "f"

(***************************************************************************)
(* The claims about the cross reference section.                           *)
(***************************************************************************)
\* The maximal runs of consecutive numbers of K as (start, count) pairs, in
\* ascending order.
RunLen(K, start) ==
  CHOOSE c \in 1..Cardinality(K) :
    /\ \A j \in 0..(c - 1) : start + j \in K
    /\ start + c \notin K

RECURSIVE FlatRuns(_, _)
FlatRuns(K, starts) ==
  IF starts = <<>> THEN <<>>
  ELSE <<Head(starts), RunLen(K, Head(starts))>> \o FlatRuns(K, Tail(starts))

RunsOf(K) == FlatRuns(K, SortSet({n \in K : n - 1 \notin K}))

EntryWidth(w) == w[1] + w[2] + w[3]

\* C15 as stated: the Index array of the xref stream holds the runs of the
\* numbers of the objects of the document, those in use that were written,
\* and the stream data holds as many entries as the counts add up to.
C15_IndexOfWrittenObjects ==
  xref.kind = "stream" =>
     /\ xref.Index =
          RunsOf({n \in DOMAIN XRefTable.Table :
                    ~XRefTable.Table[n].Free /\ HasWriteOffset(Write, n)})
     /\ Len(xref.content) = EntryWidth(xref.W) * Len(IndexNrs(xref.Index))

\* C15 as amended: the Index array holds the runs of the numbers of the
\* free entries, object 0 among them, and of the objects written before the
\* xref stream object, and the stream data holds as many entries as the
\* counts add up to.
C15_IndexOfKeys ==
  xref.kind = "stream" =>
     /\ xref.Index =
          RunsOf({n \in DOMAIN XRefTable.Table :
                    \/ XRefTable.Table[n].Free
                    \/ HasWriteOffset(Write, n) /\ n # xref.obj})
     /\ Len(xref.content) = EntryWidth(xref.W) * Len(IndexNrs(xref.Index))

\* The document with the objects 1 to 4 and 7: the Index array is
\* [0 5 7 1], and the xref stream object is object 8.
C15_Witness ==
  /\ xref.kind = "stream"
  /\ xref.Index = <<0, 5, 7, 1>>
  /\ xref.obj = XNr.Size

Max(a, b) == IF a > b THEN a ELSE b

\* ceil(log256(x)) for x >= 1.
RECURSIVE CeilLog256(_)
CeilLog256(x) == IF x <= 1 THEN 0 ELSE 1 + CeilLog256((x + 255) \div 256)

\* floor(log256(x)) for x >= 1.
RECURSIVE FloorLog256(_)
FloorLog256(x) == IF x < 256 THEN 0 ELSE 1 + FloorLog256(x \div 256)

C17_StartXRefAtSection ==
  [][(wpc = "xref" /\ xref'.kind # "none") =>
       /\ DecimalValue(xref'.startxref) = Write.Offset
       /\ xref'.kind = "table" => Write'.Out = Write.Out
       /\ xref'.kind = "stream" =>
            /\ Len(Write'.Out) = Len(Write.Out) + 1
            /\ Last(Write'.Out) = [obj |-> xref'.obj, at |-> Write.Offset]]_vars

\* An xref stream was written after the objects of the body, and startxref
\* gives the position of its marker.
C17_Witness ==
  /\ wpc = "trailer"
  /\ xref.kind = "stream"
  /\ Len(Write.Out) > 1
  /\ Last(Write.Out).obj = xref.obj
  /\ Last(Write.Out).at = DecimalValue(xref.startxref)
  /\ Last(Write.Out).at > HeaderLen

DigitSet == {DigitChars[d] : d \in 1..10}

\* C18: every line of a subsection of the classical table is 20 bytes long:
\* ten digits, a space, five digits, a space, n or f, and a line terminator
\* of two bytes.
C18_LineWidth ==
  xref.kind = "table" =>
     \A k \in 1..Len(xref.sections) :
       \A j \in 1..Len(xref.sections[k].lines) :
         LET l == xref.sections[k].lines[j]
         IN /\ Len(l) = 20
            /\ \A i \in (1..10) \cup (12..16) : l[i] \in DigitSet
            /\ l[11] = " "
            /\ l[17] = " "
            /\ l[18] \in {"n", "f"}
            /\ SubSeq(l, 19, 20) \in {<<" ", "\n">>, <<" ", "\r">>, <<"\r", "\n">>}

(***************************************************************************)
(* The claims about encryption.                                            *)
(***************************************************************************)
EncryptedClassical(X) == X.Encrypt # -1 /\ X.EncKey /\ ~Read.UsingXRefStreams

\* C19: when prepareContextForWriting returns without an error and the
\* context has an Encrypt reference and a key and the input was not read
\* from xref streams, WriteXRefStream and WriteObjectStream are false, and
\* in every other case both are what they were; in the first case the cross
\* reference section is a classical table and no entry is compressed.
C19_EncryptionForcesTable ==
  [][/\ (wpc = "prepare" /\ wpc' = "header") =>
          IF EncryptedClassical(XRefTable')
          THEN ~conf'.WriteXRefStream /\ ~conf'.WriteObjectStream
          ELSE /\ conf'.WriteXRefStream = conf.WriteXRefStream
               /\ conf'.WriteObjectStream = conf.WriteObjectStream
     /\ (xref'.kind # "none" /\ EncryptedClassical(XRefTable')) =>
          /\ xref'.kind = "table"
          /\ \A n \in DOMAIN XRefTable'.Table : ~XRefTable'.Table[n].Compressed]_vars

\* A document is encrypted on writing: the encrypt dict is written, and
\* the cross reference section is a table.
C19_Witness ==
  /\ conf.Mode = "ENCRYPT"
  /\ EncryptedClassical(XRefTable)
  /\ HasWriteOffset(Write, XRefTable.Encrypt)
  /\ xref.kind = "table"
  /\ xref.eof

\* C20: in the mode DECRYPT the context has no key from the return of
\* prepareContextForWriting on, which is before the first object is
\* written; the encrypt dict object is never written, and neither the
\* trailer dict nor the xref stream dict has an Encrypt entry.
C20_DecryptWritesNoEncrypt ==
  conf.Mode = "DECRYPT" =>
     /\ Write.Out # <<>> => ~XRefTable.EncKey
     /\ (steps # <<>> /\ failed # "prepare") => ~XRefTable.EncKey
     /\ XRefTable.Encrypt # -1 => ~HasWriteOffset(Write, XRefTable.Encrypt)
     /\ xref.kind # "none" => xref.dict.Encrypt = -1

\* An encrypted document is decrypted: the trailer is written, with a
\* table or with an xref stream.
C20_Witness ==
  /\ conf.Mode = "DECRYPT"
  /\ XRefTable.Encrypt # -1
  /\ ~XRefTable.EncKey
  /\ xref.kind # "none"
  /\ xref.eof
  /\ xref.dict.Encrypt = -1


\* C21: in the mode ENCRYPT prepareContextForWriting, when it returns no
\* error, leaves Encrypt at an object number N that was free or was the size
\* of the table, and N is an entry in use of generation 0; from the return
\* of writeEncryptDict on, which is before deleteRedundantObjects, object N
\* has a write offset; and the emitted cross reference section has an entry
\* in use for N and its dict has the Encrypt entry N.
C21_EncryptDictInstalled ==
  /\ [][(conf.Mode = "ENCRYPT" /\ wpc = "prepare" /\ wpc' = "header") =>
          LET N == XRefTable'.Encrypt
          IN /\ N # -1
             /\ \/ N = XRefTable.Size
                \/ Has(XRefTable.Table, N) /\ XRefTable.Table[N].Free
             /\ Has(XRefTable'.Table, N)
             /\ ~XRefTable'.Table[N].Free
             /\ XRefTable'.Table[N].Generation = 0
             /\ XRefTable'.Table[N].kind = "Encrypt"]_vars
  /\ [](conf.Mode = "ENCRYPT" =>
          /\ wpc \in {"delete", "xref", "trailer", "filesize"} =>
               /\ XRefTable.Encrypt # -1
               /\ HasWriteOffset(Write, XRefTable.Encrypt)
          /\ xref.kind # "none" =>
               /\ xref.dict.Encrypt = XRefTable.Encrypt
               /\ LET ents == XRefEntries
                  IN \E k \in 1..Len(ents) :
                       /\ ents[k].nr = XRefTable.Encrypt
                       /\ ents[k].type = "n"
                       /\ ents[k].f2 = Write.Table[XRefTable.Encrypt]
                       /\ ents[k].f3 = 0)

\* A document without an Encrypt dict and with a free object is written
\* encrypted: the dict took the number of the free object.
C21_Witness ==
  /\ conf.Mode = "ENCRYPT"
  /\ XRefTable.Encrypt = WNr.Spare
  /\ XRefTable.Size = WNr.Size
  /\ xref.kind # "none"
  /\ xref.eof
  /\ xref.dict.Encrypt = WNr.Spare

\* C22 as stated: in the mode ENCRYPT, on a context without a file ID,
\* prepareContextForWriting returns an error and leaves Encrypt as it was.
C22_NoIDFails ==
  [][(wpc = "prepare" /\ wpc' # "prepare"
      /\ conf.Mode = "ENCRYPT" /\ XRefTable.ID = 0) =>
       /\ failed' = "prepare"
       /\ XRefTable'.Encrypt = XRefTable.Encrypt]_vars

\* C22 as amended: in the mode ENCRYPT, on a context without a file ID,
\* prepareContextForWriting can return without an error, and then the
\* context has a file ID of two elements and an Encrypt reference; when it
\* returns an error, on any context, it leaves Encrypt as it was.
C22_IDEnsuredOrNoRef ==
  [][(wpc = "prepare" /\ wpc' # "prepare" /\ conf.Mode = "ENCRYPT") =>
       /\ failed' = "prepare" => XRefTable'.Encrypt = XRefTable.Encrypt
       /\ (failed' # "prepare" /\ XRefTable.ID = 0) =>
            /\ XRefTable'.ID = 2
            /\ XRefTable'.Encrypt # -1
            /\ XRefTable'.Encrypt # XRefTable.Encrypt
       /\ XRefTable.ID = 0 =>
            ENABLED (Prepare /\ failed' = "" /\ XRefTable'.Encrypt # -1)]_vars

\* A document without a file ID was written encrypted.
C22_Witness ==
  /\ conf.Mode = "ENCRYPT"
  /\ Ran("prepare")
  /\ failed = ""
  /\ XRefTable.ID = 2
  /\ XRefTable.Encrypt # -1
  /\ Read.UsingXRefStreams
  /\ xref.kind = "stream"


(***************************************************************************)
(* The claims about the walks of the optimizer.                            *)
(***************************************************************************)
\* The kid parsePagesDict is about to visit is no indirect reference to a
\* dict of type Page or Pages, or is a Pages dict without Count.
BadKid ==
  /\ pc = "walk"
  /\ rstack = <<>>
  /\ pstack # <<>>
  /\ Last(pstack).idx <= Len(input.kids[Last(pstack).node])
  /\ LET kid == input.kids[Last(pstack).node][Last(pstack).idx]
     IN \/ kid = Direct
        \/ DerefFails(kid)
        \/ ~IsDict(kid)
        \/ input.kind[kid] \notin {"Page", "Pages"}
        \/ input.kind[kid] = "Pages" /\ input.count[kid] < 0

\* C23: when the kid parsePagesDict visits is no indirect reference that
\* resolves to a dict of type Page or Pages, or the Pages dict it resolves to
\* has no Count, the walk stops and OptimizeXRefTable returns an error; it
\* does not panic and does not go on.
C23_BadKidReturnsError ==
  [][BadKid => pc' = "failed" /\ err' /\ pstack' = <<>>]_vars

\* The object numbers that are in S or can be reached from S through
\* indirect references.
RECURSIVE Reachable(_)
Reachable(S) ==
  LET T == S \cup UNION {input.refs[n] : n \in S}
  IN IF T = S THEN S ELSE Reachable(T)

\* C24: when calcRedundantObjects has returned nil, DuplicateFontObjs holds
\* the duplicate fonts and the object numbers that can be reached from them
\* through indirect references and no other number, and DuplicateImageObjs
\* the same for the duplicate images.
C24_DuplicateClosure ==
  (pc = "calc" /\ tstack = <<>> /\ calc.fonts = {} /\ calc.images = {}) =>
     /\ Optimize.DuplicateFontObjs = Reachable(Optimize.DuplicateFonts)
     /\ Optimize.DuplicateImageObjs = Reachable(Optimize.DuplicateImages)

\* C29: every call of OptimizeXRefTable comes to an end, with or without an
\* error: the page tree walk, the recursion into the resources of forms and
\* the traversal of the duplicates finish.
C29_WalksFinish ==
  <>(pc \in {"done", "failed", "panic"})




\* C26: at every point of the optimizer no object number is both a key of
\* FontObjects or ImageObjects and a key of DuplicateFonts or
\* DuplicateImages; every number in a list of Fonts is a key of FontObjects
\* registered under that font name and is in the list once; every member of
\* PageFonts[p] is a key of FontObjects and every member of PageImages[p] a
\* key of ImageObjects.
C26_TablesConsistent ==
  LET O == Optimize
  IN /\ (DOMAIN O.FontObjects \cup DOMAIN O.ImageObjects)
          \cap (O.DuplicateFonts \cup O.DuplicateImages) = {}
     /\ \A fn \in DOMAIN O.Fonts :
          \A i \in 1..Len(O.Fonts[fn]) :
            /\ Has(O.FontObjects, O.Fonts[fn][i])
            /\ O.FontObjects[O.Fonts[fn][i]].FontName = fn
            /\ \A j \in 1..Len(O.Fonts[fn]) :
                 O.Fonts[fn][j] = O.Fonts[fn][i] => j = i
     /\ \A p \in DOMAIN O.PageFonts :
          O.PageFonts[p] \subseteq DOMAIN O.FontObjects
     /\ \A p \in DOMAIN O.PageImages :
          O.PageImages[p] \subseteq DOMAIN O.ImageObjects

C26_Witness ==
  /\ pc = "done"
  /\ Optimize.DuplicateFonts # {}
  /\ Optimize.DuplicateImages # {}
  /\ \E fn \in DOMAIN Optimize.Fonts : Len(Optimize.Fonts[fn]) > 1
  /\ \E p \in DOMAIN Optimize.PageFonts :
       Optimize.PageFonts[p] # {} /\ Optimize.PageImages[p] # {}


\* C27: when the cross reference section is an xref stream, every object
\* in use that was written to the output, the xref stream object among them,
\* has an entry in the data of the stream and is covered by the Index array,
\* and Size is greater than its number.
C27_StreamCoversWritten ==
  xref.kind = "stream" =>
    LET ents == XRefEntries
        covered == {IndexNrs(xref.Index)[k] : k \in 1..Len(IndexNrs(xref.Index))}
    IN \A n \in DOMAIN XRefTable.Table :
         (~XRefTable.Table[n].Free /\ HasWriteOffset(Write, n)) =>
            /\ EntriesOf(ents, n) # {}
            /\ n \in covered
            /\ xref.Size > n


(***************************************************************************)
(* The claims about the object stream.                                     *)
(***************************************************************************)
\* The fields of a buffer that are separated by single spaces.
RECURSIVE Fields(_)
Fields(s) ==
  LET sp == {i \in 1..Len(s) : s[i] = " "}
  IN IF s = <<>> THEN <<>>
     ELSE IF sp = {} THEN <<s>>
     ELSE LET k == CHOOSE i \in sp : \A j \in sp : i <= j
          IN <<SubSeq(s, 1, k - 1)>> \o Fields(SubSeq(s, k + 1, Len(s)))

IsNumber(s) == s # <<>> /\ \A i \in 1..Len(s) : s[i] \in DigitSet

\* The total length of the serializations of the first k objects added.
RECURSIVE SerLen(_, _)
SerLen(calls, k) ==
  IF k = 0 THEN 0 ELSE SerLen(calls, k - 1) + Len(PDFString(calls[k].obj))

\* C25: after n calls of AddObject that all returned nil and one Finalize,
\* ObjCount is n, the prolog holds n pairs `objNr offset` separated by single
\* spaces in the order of the calls, the i-th offset is the total length of
\* the serializations of the objects added before, FirstObjOffset is the
\* length of the prolog, and the serialization of the i-th object starts at
\* FirstObjOffset + offset_i in the content.
C25_ObjectStreamLayout ==
  (ostm.final /\ \A k \in 1..Len(ostm.calls) : ostm.calls[k].ok) =>
    LET n == Len(ostm.calls)
        first == ostm.FirstObjOffset
        pro == SubSeq(ostm.Content, 1, first)
        f == Fields(pro)
    IN /\ ostm.ObjCount = n
       /\ first = Len(ostm.Prolog)
       /\ pro = ostm.Prolog
       /\ Len(f) = 2 * n
       /\ Cardinality({i \in 1..Len(pro) : pro[i] = " "})
            = IF n = 0 THEN 0 ELSE 2 * n - 1
       /\ \A i \in 1..n :
            LET ser == PDFString(ostm.calls[i].obj)
            IN /\ IsNumber(f[2 * i - 1]) /\ IsNumber(f[2 * i])
               /\ DecimalValue(f[2 * i - 1]) = ostm.calls[i].nr
               /\ DecimalValue(f[2 * i]) = SerLen(ostm.calls, i - 1)
               /\ SubSeq(ostm.Content, first + DecimalValue(f[2 * i]) + 1,
                         first + DecimalValue(f[2 * i]) + Len(ser)) = ser
       /\ Len(ostm.Content) = first + SerLen(ostm.calls, n)

C25_Witness ==
  /\ ostm.final
  /\ Len(ostm.calls) = MaxObjs
  /\ \A k \in 1..Len(ostm.calls) : ostm.calls[k].ok
  /\ ostm.calls[1].obj.type = "Dict" /\ ostm.calls[1].nr = 12
  /\ ostm.calls[2].obj.type = "Array" /\ ostm.calls[2].nr = 7
  /\ ostm.FirstObjOffset > 0

\* C28: a call of AddObject with a stream dict, an indirect ref or null
\* returns an error and leaves Prolog, Content and ObjCount as they were.
C28_FailedAddLeavesStream ==
  [][(/\ Len(ostm'.calls) = Len(ostm.calls) + 1
      /\ Last(ostm'.calls).obj.type \in {"StreamDict", "IndirectRef", "Null"})
       => /\ ~Last(ostm'.calls).ok
          /\ ostm'.Prolog = ostm.Prolog
          /\ ostm'.Content = ostm.Content
          /\ ostm'.ObjCount = ostm.ObjCount]_vars

=============================================================================
